---- MODULE Spec2Model ----
(***************************************************************************)
(* Model of the AWS cluster lifecycle of xstrapolate                       *)
(* (src/pkg/cloud/aws.go): CreateCluster (EKS and single-node paths),      *)
(* DeleteCluster and the helpers they call, run against a model of the     *)
(* provider account (EC2 resources with their tags, IAM roles and          *)
(* profiles, EKS clusters).  Every provider call is one step; a call       *)
(* fails either for a reason the account state determines (already         *)
(* exists, dependency violation, not found) or by an injected fault.       *)
(* The create and teardown commands (src/cmd/cluster.go) with the manager   *)
(* constructors and InstallFlux (src/pkg/k8s/flux.go) are modelled around  *)
(* the manager's functions in the specification SpecCommand.               *)
(***************************************************************************)
EXTENDS Integers, Sequences, FiniteSets, TLC

\* ------------------------------------------------------------------ bounds
MaxFaults == 1          \* injected provider faults per behaviour
MaxRuns == 2            \* invocations per behaviour
MaxZones == 2           \* largest number of zones the region reports
MaxImages == 3          \* longest list of images DescribeImages returns

\* ------------------------------------------------------- program constants
maxRetries == 6             \* createEC2Instance launch attempts
maxAttempts == 12           \* waitForInstanceProfile polls
maxDeleteRetries == 3       \* deleteSecurityGroups / deleteSubnets attempts
maxEndpointTicks == 30      \* waitForVPCEndpointsDeletion: 5 min / 10 s

ClusterNames == {"a", "b"}
ClusterTypesMut == {"eks", "single-node", "aks"}
ClusterTypes == {"eks", "single-node"}

ssmRoleName == "xstrapolate-ssm-role"
ssmProfileName == "xstrapolate-ssm-profile"
eksRoleName == "xstrapolate-eks-service-role"

\* the three interface endpoints createSSMVPCEndpoints asks for
endpoints == <<"ssm", "ssmmessages", "ec2messages">>

\* error values: "" is nil, Injected is a provider fault that carries none
\* of the signatures the code looks for
Injected == "InternalError"

VARIABLES
    res,         \* EC2-side resources of the account (set of records)
    iam,         \* IAM roles, attached policies, profiles, bindings
    eksClusters, \* names of the managed EKS clusters that exist
    propagated,  \* services that already see the instance profile
    nextId,      \* next resource identifier the provider hands out
    zones,       \* number of available zones of the region
    pc,          \* position of the running invocation ("idle" when none)
    op,          \* the running (or last) invocation: function, name, type
    loc,         \* local variables of the running invocation
    calls,       \* provider calls issued by the running invocation
    ret,         \* what the running invocation returns, once it has
    history,     \* the finished invocations and what they returned
    budget,      \* injected faults still allowed, per invoked function
    runs         \* invocations still allowed

vars == <<res, iam, eksClusters, propagated, nextId, zones, pc, op, loc, calls,
          ret, history, budget, runs>>

world == <<res, iam, eksClusters, propagated, nextId, zones>>

\* ---------------------------------------------------------------- helpers
RECURSIVE SortedIds(_)
SortedIds(S) ==
    IF S = {} THEN <<>>
    ELSE LET m == CHOOSE x \in S : \A y \in S : x <= y
         IN  <<m>> \o SortedIds(S \ {m})

Range(s) == {s[i] : i \in 1..Len(s)}

\* A resource of the account.  managed is the tag xstrapolate-managed=true,
\* rtype the tag xstrapolate-resource-type, cluster the value of the tag
\* xstrapolate-cluster ("" when absent), sub the Type tag of a subnet, the
\* group name of a security group or the service of an endpoint, ref the
\* subnet of an instance, the security group of an endpoint or the gateway
\* of a route table's default route, octet the third octet of a subnet's
\* /24 range, assoc the subnets associated with a route table or holding
\* the interfaces of an endpoint, attrs the attributes of a VPC and the
\* ingress rules of a security group, owner who created it.
NewRes(id, kind, vpc, managed, rtype) ==
    [id |-> id, kind |-> kind, vpc |-> vpc, managed |-> managed,
     rtype |-> rtype, cluster |-> "", state |-> "available", sub |-> "",
     ref |-> 0, octet |-> 0, assoc |-> {}, attrs |-> {}, owner |-> "tool"]

Exists(id) == \E r \in res : r.id = id
Get(id) == CHOOSE r \in res : r.id = id
OfKind(kind, vpc) == {r \in res : r.kind = kind /\ r.vpc = vpc}
Without(id) == {r \in res : r.id # id}
ReplaceMut(r) == Without(r.id)
Replace(r) == Without(r.id) \cup {r}

\* the log entry of one provider call; managed tells whether the resource
\* the call names carried xstrapolate-managed=true when the call was made
Call(o, id, vpc, name, e) ==
    [op |-> o, id |-> id, vpc |-> vpc, name |-> name, err |-> e,
     managed |-> \E r \in res : r.id = id /\ r.managed]
Log(o, id, vpc, name, e) == calls' = Append(calls, Call(o, id, vpc, name, e))

\* The errors a call can return: the one the account state determines
\* (sem, "" for success), or an injected fault while the budget lasts.
Faults == IF budget[op.fn] > 0 THEN {Injected} ELSE {}
Outcomes(sem) == {sem} \cup Faults
Charge(e) ==
    budget' = IF e = Injected THEN [budget EXCEPT ![op.fn] = @ - 1] ELSE budget

\* the value a function returns besides its error
ValMut(name, id, status) == [name |-> name, id |-> id, status |-> "active"]
Val(name, id, status) == [name |-> name, id |-> id, status |-> status]
NoVal == Val("", 0, "")
NoRet == [err |-> "", val |-> NoVal]
NoIam == [roles |-> {}, attached |-> {}, profiles |-> {}, bound |-> {}]

LocInit ==
    [instances |-> <<>>, i |-> 1, vpcIds |-> {}, vpc |-> 0, ids |-> <<>>,
     k |-> 1, retry |-> 0, polls |-> 0, endpointIds |-> <<>>, err |-> "",
     sg |-> 0, igw |-> 0, rt |-> 0, pub |-> <<>>, priv |-> <<>>, zones |-> 0,
     caller |-> "", instance |-> 0, roles |-> {}, cmd |-> "", cloud |-> "",
     force |-> FALSE, images |-> <<>>]

\* ------------------------------------------------------------ the account
\* The account owner's own network: a VPC without any xstrapolate tag and
\* an instance in it that the owner may have labelled with a cluster name.
UserVpc == [NewRes(1, "vpc", 1, FALSE, FALSE) EXCEPT !.owner = "user"]
UserSubnet == [NewRes(2, "subnet", 1, FALSE, FALSE) EXCEPT !.owner = "user"]
UserInstance(name) ==
    [NewRes(3, "instance", 1, FALSE, FALSE) EXCEPT
        !.cluster = name, !.state = "running", !.ref = 2, !.owner = "user"]

Functions == {"CreateCluster", "DeleteCluster", "ensureSSMInstanceProfile",
              "ensureEKSServiceRole"}

\* The account before the tool is first run; faulty are the functions whose
\* provider calls may fail by an injected fault.
InitWith(faulty, maxFaults, maxRuns) ==
    /\ \E tagged \in BOOLEAN :
         res = {UserVpc, UserSubnet,
                UserInstance(IF tagged THEN "a" ELSE "")}
    /\ iam = NoIam
    /\ eksClusters = {}
    /\ propagated = {}
    /\ nextId = 4
    /\ zones \in 0..MaxZones
    /\ pc = "idle"
    /\ op = [fn |-> "", name |-> "", type |-> ""]
    /\ loc = LocInit
    /\ calls = <<>>
    /\ ret = NoRet
    /\ history = <<>>
    /\ budget = [f \in Functions |-> IF f \in faulty THEN maxFaults ELSE 0]
    /\ runs = maxRuns

\* the invoked function returns e and val to the command
FinishMut(e, val) ==
    /\ pc' = "done"
    /\ ret' = [err |-> "failed", val |-> val]
Finish(e, val) ==
    /\ pc' = "done"
    /\ ret' = [err |-> e, val |-> val]

\* the command reports the result and the process exits
Exit ==
    /\ pc = "done"
    /\ pc' = "idle"
    /\ history' = Append(history, [fn |-> op.fn, name |-> op.name, type |-> op.type,
                                   err |-> ret.err, val |-> ret.val, iam |-> iam,
                                   vpc |-> loc.vpc])
    /\ calls' = <<>>
    /\ ret' = NoRet
    /\ loc' = LocInit
    /\ UNCHANGED <<world, op, budget, runs>>

\* ------------------------------------------------------------ IAM service
CreateRoleErr(role) ==
    IF role \in iam.roles THEN "EntityAlreadyExists" ELSE ""
AttachRolePolicyErr(role) ==
    IF role \notin iam.roles THEN "NoSuchEntity" ELSE ""
CreateInstanceProfileErr(profile) ==
    IF profile \in iam.profiles THEN "EntityAlreadyExists" ELSE ""
AddRoleToInstanceProfileErr(profile, role) ==
    IF profile \notin iam.profiles \/ role \notin iam.roles THEN "NoSuchEntity"
    ELSE IF \E b \in iam.bound : b[1] = profile THEN "LimitExceeded"
    ELSE ""
BoundRoles(profile) == {b[2] : b \in {c \in iam.bound : c[1] = profile}}

\* What one GetInstanceProfile read can return.  While IAM has not caught
\* up with a new profile a read may miss the profile or its role.
GetInstanceProfileResults(profile) ==
    LET fresh == [err |-> "", roles |-> BoundRoles(profile), fresh |-> TRUE]
        stale == {[err |-> "NoSuchEntity", roles |-> {}, fresh |-> FALSE],
                  [err |-> "", roles |-> {}, fresh |-> FALSE]}
        fault == IF Faults # {}
                 THEN {[err |-> Injected, roles |-> {}, fresh |-> FALSE]}
                 ELSE {}
    IN  fault \cup
        (IF profile \notin iam.profiles
         THEN {[err |-> "NoSuchEntity", roles |-> {}, fresh |-> FALSE]}
         ELSE IF "iam" \in propagated THEN {fresh}
         ELSE {fresh} \cup stale)

\* ------------------------------------------- ensureSSMInstanceProfile
\* line 884: the bind failure that means "already bound"
AlreadyAttachedMut(e) == FALSE
AlreadyAttachedAnyMut(e) == TRUE
AlreadyAttached(e) == e \in {"LimitExceeded", "EntityAlreadyExists"}

\* where control goes when ensureSSMInstanceProfile returns e: back to
\* createSingleNodeCluster (lines 149-155), which gives up on an error
ensureSSMInstanceProfile_Return(e) ==
    IF loc.caller = "createSingleNodeCluster" /\ e = ""
    THEN /\ pc' = "waitForInstanceProfile"
         /\ UNCHANGED ret
    ELSE Finish(e, IF e = "" THEN Val(ssmProfileName, 0, ssmRoleName) ELSE NoVal)

ensureSSMInstanceProfile_CreateRole ==
    /\ pc = "ensureSSMInstanceProfile"
    /\ \E e \in Outcomes(CreateRoleErr(ssmRoleName)) :
         /\ Charge(e)
         /\ Log("CreateRole", 0, 0, ssmRoleName, e)
         /\ iam' = IF e = "" THEN [iam EXCEPT !.roles = @ \cup {ssmRoleName}]
                   ELSE iam
    /\ pc' = "ssm_AttachRolePolicy"
    /\ UNCHANGED <<res, eksClusters, zones, propagated, nextId, op, loc, ret,
                   runs, history>>

ensureSSMInstanceProfile_AttachRolePolicy ==
    /\ pc = "ssm_AttachRolePolicy"
    /\ \E e \in Outcomes(AttachRolePolicyErr(ssmRoleName)) :
         /\ Charge(e)
         /\ Log("AttachRolePolicy", 0, 0, ssmRoleName, e)
         /\ iam' = IF e = "" THEN [iam EXCEPT !.attached = @ \cup {ssmRoleName}]
                   ELSE iam
    /\ pc' = "ssm_CreateInstanceProfile"
    /\ UNCHANGED <<res, eksClusters, zones, propagated, nextId, op, loc, ret,
                   runs, history>>

ensureSSMInstanceProfile_CreateInstanceProfile ==
    /\ pc = "ssm_CreateInstanceProfile"
    /\ \E e \in Outcomes(CreateInstanceProfileErr(ssmProfileName)) :
         /\ Charge(e)
         /\ Log("CreateInstanceProfile", 0, 0, ssmProfileName, e)
         /\ iam' = IF e = "" THEN [iam EXCEPT !.profiles = @ \cup {ssmProfileName}]
                   ELSE iam
         /\ propagated' = IF e = "" THEN {} ELSE propagated
    /\ pc' = "ssm_AddRoleToInstanceProfile"
    /\ UNCHANGED <<res, eksClusters, zones, nextId, op, loc, ret,
                   runs, history>>

ensureSSMInstanceProfile_AddRoleToInstanceProfile ==
    /\ pc = "ssm_AddRoleToInstanceProfile"
    /\ \E e \in Outcomes(AddRoleToInstanceProfileErr(ssmProfileName, ssmRoleName)) :
         /\ Charge(e)
         /\ Log("AddRoleToInstanceProfile", 0, 0, ssmProfileName, e)
         /\ iam' = IF e = ""
                   THEN [iam EXCEPT !.bound = @ \cup {<<ssmProfileName, ssmRoleName>>}]
                   ELSE iam
         /\ propagated' = IF e = "" THEN {} ELSE propagated
         /\ ensureSSMInstanceProfile_Return(
                IF e = "" \/ AlreadyAttached(e) THEN "" ELSE e)
    /\ UNCHANGED <<res, eksClusters, zones, nextId, op, loc, runs, history>>

\* ---------------------------------------------- waitForInstanceProfile
\* line 920: the read failure that means "not yet there"
NotYetAvailableMut(e) == e # ""
NotYetAvailable(e) == e = "NoSuchEntity"

\* lines 905-917: the read shows the profile with a role bound to it
ProfileReadyMut(r) == r.err = ""
ProfileReady(r) == r.err = "" /\ r.roles # {}

\* line 899: the loop has made all its passes
PollsExhaustedMut(polls) == FALSE
PollsExhaustedLateMut(polls) == polls > maxAttempts
PollsExhausted(polls) == polls >= maxAttempts

\* One pass of the poll loop (lines 899-928), or the end of the loop (930).
\* The wait's result is logged when it returns and loc.roles keeps the roles
\* its last read showed; on success control is back
\* in createSingleNodeCluster (lines 155-164), at createEC2Instance.
waitForInstanceProfile ==
    /\ pc = "waitForInstanceProfile"
    /\ IF PollsExhausted(loc.polls)
       THEN /\ Log("waitForInstanceProfile", 0, 0, ssmProfileName, "timeout")
            /\ Finish("timeout", NoVal)
            /\ UNCHANGED <<world, loc, budget>>
       ELSE \E r \in GetInstanceProfileResults(ssmProfileName) :
              /\ Charge(r.err)
              /\ propagated' = IF r.fresh THEN propagated \cup {"iam"}
                               ELSE propagated
              /\ UNCHANGED <<res, iam, eksClusters, zones, nextId>>
              /\ IF ProfileReady(r)
                 THEN /\ Log("waitForInstanceProfile", 0, 0, ssmProfileName, "")
                      /\ pc' = "createVPCAndSubnetsForSSM"
                      /\ UNCHANGED ret
                      /\ loc' = [loc EXCEPT !.polls = 0, !.roles = r.roles]
                 ELSE IF r.err = ""
                 THEN /\ Log("waitForInstanceProfile", 0, 0, ssmProfileName,
                             "no role is attached")
                      /\ Finish("no role is attached", NoVal)
                      /\ UNCHANGED loc
                 ELSE IF NotYetAvailable(r.err)
                 THEN /\ loc' = [loc EXCEPT !.polls = @ + 1]
                      /\ UNCHANGED <<pc, ret, calls>>
                 ELSE /\ Log("waitForInstanceProfile", 0, 0, ssmProfileName, r.err)
                      /\ Finish(r.err, NoVal)
                      /\ UNCHANGED loc
    /\ UNCHANGED <<op, runs, history>>

\* ------------------------------------------------------------ EC2 service
Tagged(id, kind, vpc) == NewRes(id, kind, vpc, TRUE, TRUE)

\* CreateVpc: the provider also makes the VPC's main route table and its
\* default security group, which carry no tag
NewVpc(id) ==
    {[Tagged(id, "vpc", id) EXCEPT !.attrs = {"EnableDnsSupport"}],
     [NewRes(id + 1, "rtb", id, FALSE, FALSE) EXCEPT !.sub = "main", !.owner = "aws"],
     [NewRes(id + 2, "sg", id, FALSE, FALSE) EXCEPT !.sub = "default", !.owner = "aws"]}

CreateSubnetErr(vpc, octet) ==
    IF ~Exists(vpc) THEN "InvalidVpcID.NotFound"
    ELSE IF \E r \in OfKind("subnet", vpc) : r.octet = octet
    THEN "InvalidSubnet.Conflict"
    ELSE ""

\* an interface endpoint with private DNS needs both DNS attributes
CreateVpcEndpointErr(vpc, sg) ==
    IF ~Exists(vpc) \/ ~Exists(sg) THEN "InvalidParameter"
    ELSE IF ~({"EnableDnsSupport", "EnableDnsHostnames"} \subseteq Get(vpc).attrs)
    THEN "InvalidParameter"
    ELSE ""

\* RunInstances needs an instance profile with a role; while EC2 has not
\* caught up with a new profile the launch may fail the same way
RunInstancesErrs(subnet, profile) ==
    IF ~Exists(subnet) THEN {"InvalidSubnetID.NotFound"}
    ELSE IF BoundRoles(profile) = {} THEN {"InvalidProfile"}
    ELSE IF "ec2" \in propagated THEN {""}
    ELSE {"", "InvalidProfile"}

\* ---------------------------------------------- createVPCAndSubnetsForSSM
\* createEC2Instance and createSingleNodeCluster pass an error up unchanged
createSingleNodeCluster_Fail(e) == Finish(e, NoVal)

createVPCAndSubnetsForSSM_CreateVpc ==
    /\ pc = "createVPCAndSubnetsForSSM"
    /\ \E e \in Outcomes("") :
         /\ Charge(e)
         /\ Log("CreateVpc", IF e = "" THEN nextId ELSE 0,
                IF e = "" THEN nextId ELSE 0, "", e)
         /\ IF e = ""
            THEN /\ res' = res \cup NewVpc(nextId)
                 /\ nextId' = nextId + 3
                 /\ loc' = [loc EXCEPT !.vpc = nextId]
                 /\ pc' = "ssmvpc_EnableDnsSupport"
                 /\ UNCHANGED ret
            ELSE /\ createSingleNodeCluster_Fail(e)
                 /\ UNCHANGED <<res, nextId, loc>>
    /\ UNCHANGED <<iam, eksClusters, zones, propagated, op, runs, history>>

createVPCAndSubnetsForSSM_EnableDnsSupport ==
    /\ pc = "ssmvpc_EnableDnsSupport"
    /\ \E e \in Outcomes("") :
         /\ Charge(e)
         /\ Log("ModifyVpcAttribute/EnableDnsSupport", loc.vpc, loc.vpc, "", e)
         /\ IF e = ""
            THEN /\ res' = Replace([Get(loc.vpc) EXCEPT !.attrs = @ \cup {"EnableDnsSupport"}])
                 /\ pc' = "ssmvpc_EnableDnsHostnames"
                 /\ UNCHANGED ret
            ELSE /\ createSingleNodeCluster_Fail(e)
                 /\ UNCHANGED res
    /\ UNCHANGED <<iam, eksClusters, zones, propagated, nextId, op, loc, runs, history>>

createVPCAndSubnetsForSSM_EnableDnsHostnames ==
    /\ pc = "ssmvpc_EnableDnsHostnames"
    /\ \E e \in Outcomes("") :
         /\ Charge(e)
         /\ Log("ModifyVpcAttribute/EnableDnsHostnames", loc.vpc, loc.vpc, "", e)
         /\ IF e = ""
            THEN /\ res' = Replace([Get(loc.vpc) EXCEPT !.attrs = @ \cup {"EnableDnsHostnames"}])
                 /\ pc' = "ssmvpc_DescribeAvailabilityZones"
                 /\ UNCHANGED ret
            ELSE /\ createSingleNodeCluster_Fail(e)
                 /\ UNCHANGED res
    /\ UNCHANGED <<iam, eksClusters, zones, propagated, nextId, op, loc, runs, history>>

\* line 601: the zones the single-node network needs
ZonesNeededForSSM == 1

createVPCAndSubnetsForSSM_DescribeAvailabilityZones ==
    /\ pc = "ssmvpc_DescribeAvailabilityZones"
    /\ \E e \in Outcomes("") :
         LET n == zones IN
         /\ Charge(e)
         /\ Log("DescribeAvailabilityZones", 0, loc.vpc, "", e)
         /\ IF e # ""
            THEN /\ createSingleNodeCluster_Fail(e)
                 /\ UNCHANGED loc
            ELSE IF n < ZonesNeededForSSM
            THEN /\ createSingleNodeCluster_Fail("need at least 1 availability zone")
                 /\ UNCHANGED loc
            ELSE /\ loc' = [loc EXCEPT !.zones = n, !.i = 0, !.priv = <<>>]
                 /\ pc' = "ssmvpc_CreateSubnet"
                 /\ UNCHANGED ret
    /\ UNCHANGED <<world, op, runs, history>>

\* line 612: the third octet of the i-th private subnet's range
SSMPrivateOctet(i) == i + 10

\* lines 637-640: the Type tag of the subnets of the single-node network
SSMSubnetTypeMut == "public"
SSMSubnetType == "private"

\* line 608: the loop creates a subnet for zone i
SSMSubnetLoopMut(i, n) == i < 2
SSMSubnetLoop(i, n) == i < 2 /\ i < n

createVPCAndSubnetsForSSM_CreateSubnet ==
    /\ pc = "ssmvpc_CreateSubnet"
    /\ IF SSMSubnetLoop(loc.i, loc.zones)
       THEN \E e \in Outcomes(CreateSubnetErr(loc.vpc, SSMPrivateOctet(loc.i))) :
              /\ Charge(e)
              /\ Log("CreateSubnet", IF e = "" THEN nextId ELSE 0, loc.vpc, "", e)
              /\ IF e = ""
                 THEN /\ res' = res \cup
                         {[Tagged(nextId, "subnet", loc.vpc) EXCEPT
                             !.sub = SSMSubnetType,
                             !.octet = SSMPrivateOctet(loc.i),
                             !.ref = loc.i + 1]}
                      /\ nextId' = nextId + 1
                      /\ loc' = [loc EXCEPT !.i = @ + 1,
                                            !.priv = Append(@, nextId)]
                      /\ UNCHANGED <<pc, ret>>
                 ELSE /\ createSingleNodeCluster_Fail(e)
                      /\ UNCHANGED <<res, nextId, loc>>
       ELSE /\ pc' = "createSSMVPCEndpoints"
            /\ UNCHANGED <<res, nextId, loc, ret, calls, budget>>
    /\ UNCHANGED <<iam, eksClusters, zones, propagated, op, runs, history>>

\* -------------------------------------------------- createSSMVPCEndpoints
\* Its error return only produces a warning in createVPCAndSubnetsForSSM
\* (lines 652-655), which then returns the private subnets.
createSSMVPCEndpoints_CreateSecurityGroup ==
    /\ pc = "createSSMVPCEndpoints"
    /\ \E e \in Outcomes("") :
         /\ Charge(e)
         /\ Log("CreateSecurityGroup", IF e = "" THEN nextId ELSE 0, loc.vpc, "", e)
         /\ IF e = ""
            THEN /\ res' = res \cup
                      {[Tagged(nextId, "sg", loc.vpc) EXCEPT
                          !.sub = "xstrapolate-ssm-endpoints"]}
                 /\ nextId' = nextId + 1
                 /\ loc' = [loc EXCEPT !.sg = nextId]
                 /\ pc' = "ssmep_AuthorizeSecurityGroupIngress"
            ELSE /\ pc' = "getLatestAmazonLinuxAMI"
                 /\ UNCHANGED <<res, nextId, loc>>
    /\ UNCHANGED <<iam, eksClusters, zones, propagated, op, ret, runs, history>>

createSSMVPCEndpoints_AuthorizeSecurityGroupIngress ==
    /\ pc = "ssmep_AuthorizeSecurityGroupIngress"
    /\ \E e \in Outcomes("") :
         /\ Charge(e)
         /\ Log("AuthorizeSecurityGroupIngress", loc.sg, loc.vpc, "", e)
         /\ res' = IF e = ""
                   THEN Replace([Get(loc.sg) EXCEPT
                                   !.attrs = @ \cup {"tcp/443 from 10.0.0.0/16"}])
                   ELSE res
    /\ pc' = "ssmep_CreateVpcEndpoint"
    /\ loc' = [loc EXCEPT !.k = 1]
    /\ UNCHANGED <<iam, eksClusters, zones, propagated, nextId, op, ret, runs, history>>

createSSMVPCEndpoints_CreateVpcEndpoint ==
    /\ pc = "ssmep_CreateVpcEndpoint"
    /\ IF loc.k <= Len(endpoints)
       THEN \E e \in Outcomes(CreateVpcEndpointErr(loc.vpc, loc.sg)) :
              /\ Charge(e)
              /\ Log("CreateVpcEndpoint", IF e = "" THEN nextId ELSE 0, loc.vpc,
                     endpoints[loc.k], e)
              /\ IF e = ""
                 THEN /\ res' = res \cup
                           {[Tagged(nextId, "vpce", loc.vpc) EXCEPT
                               !.sub = endpoints[loc.k],
                               !.ref = loc.sg,
                               !.assoc = Range(loc.priv)]}
                      /\ nextId' = nextId + 1
                 ELSE UNCHANGED <<res, nextId>>
              /\ loc' = [loc EXCEPT !.k = @ + 1]
              /\ UNCHANGED pc
       ELSE /\ pc' = "getLatestAmazonLinuxAMI"
            /\ UNCHANGED <<res, nextId, loc, calls, budget>>
    /\ UNCHANGED <<iam, eksClusters, zones, propagated, op, ret, runs, history>>

\* ------------------------------------------------------- createEC2Instance
getLatestAmazonLinuxAMI ==
    /\ pc = "getLatestAmazonLinuxAMI"
    /\ \E e \in Outcomes("") :
         /\ Charge(e)
         /\ Log("DescribeImages", 0, 0, "", e)
         /\ IF e = ""
            THEN /\ pc' = "RunInstances"
                 /\ loc' = [loc EXCEPT !.retry = 0]
                 /\ UNCHANGED ret
            ELSE /\ createSingleNodeCluster_Fail(e)
                 /\ UNCHANGED loc
    /\ UNCHANGED <<world, op, runs, history>>

\* line 821: the launch is tried again
RetryLaunchMut(e, retry) == retry < maxRetries - 1
RetryLaunch(e, retry) == e = "InvalidProfile" /\ retry < maxRetries - 1

\* lines 816-818: the loop is left on success
LaunchBreaksMut(e) == FALSE
LaunchBreaks(e) == e = ""

\* One pass of the launch loop (lines 788-829); after the loop (line 831)
\* the instance goes back to createSingleNodeCluster, which returns the
\* descriptor (lines 177-184).
createEC2Instance_RunInstances ==
    /\ pc = "RunInstances"
    /\ IF loc.retry < maxRetries
       THEN \E e \in RunInstancesErrs(loc.priv[1], ssmProfileName) \cup Faults :
              /\ Charge(e)
              /\ Log("RunInstances", IF e = "" THEN nextId ELSE 0, loc.vpc, op.name, e)
              /\ IF e = ""
                 THEN /\ res' = res \cup
                           {[NewRes(nextId, "instance", loc.vpc, FALSE, FALSE) EXCEPT
                               !.cluster = op.name, !.state = "running",
                               !.ref = loc.priv[1]]}
                      /\ nextId' = nextId + 1
                      /\ propagated' = propagated \cup {"ec2"}
                 ELSE UNCHANGED <<res, nextId, propagated>>
              /\ IF LaunchBreaks(e)
                 THEN /\ Finish("", Val(op.name, nextId, "provisioning"))
                      /\ loc' = [loc EXCEPT !.instance = nextId]
                 ELSE IF e = "" \/ RetryLaunch(e, loc.retry)
                 THEN /\ loc' = [loc EXCEPT !.retry = @ + 1,
                                   !.instance = IF e = "" THEN nextId ELSE @]
                      /\ UNCHANGED <<pc, ret>>
                 ELSE /\ createSingleNodeCluster_Fail(e)
                      /\ UNCHANGED loc
       ELSE /\ Finish("", Val(op.name, loc.instance, "provisioning"))
            /\ UNCHANGED <<res, nextId, propagated, loc, calls, budget>>
    /\ UNCHANGED <<iam, eksClusters, zones, op, runs, history>>

\* ---------------------------------------------------- ensureEKSServiceRole
\* lines 203-211: whatever CreateRole answers, the function goes on
ensureEKSServiceRole_CreateRole ==
    /\ pc = "ensureEKSServiceRole"
    /\ \E e \in Outcomes(CreateRoleErr(eksRoleName)) :
         /\ Charge(e)
         /\ Log("CreateRole", 0, 0, eksRoleName, e)
         /\ iam' = IF e = "" THEN [iam EXCEPT !.roles = @ \cup {eksRoleName}]
                   ELSE iam
    /\ pc' = "eks_AttachRolePolicy"
    /\ UNCHANGED <<res, eksClusters, zones, propagated, nextId, op, loc, ret,
                   runs, history>>

\* lines 217-225: a failed attachment is a warning
ensureEKSServiceRole_AttachRolePolicy ==
    /\ pc = "eks_AttachRolePolicy"
    /\ \E e \in Outcomes(AttachRolePolicyErr(eksRoleName)) :
         /\ Charge(e)
         /\ Log("AttachRolePolicy", 0, 0, eksRoleName, e)
         /\ iam' = IF e = "" THEN [iam EXCEPT !.attached = @ \cup {eksRoleName}]
                   ELSE iam
    /\ pc' = "getAccountID"
    /\ UNCHANGED <<res, eksClusters, zones, propagated, nextId, op, loc, ret,
                   runs, history>>

createEKSCluster_Fail(e) == Finish(e, NoVal)

\* lines 227-231 with getAccountID (1135-1141), and the return to
\* createEKSCluster (lines 95-100)
ensureEKSServiceRole_getAccountID ==
    /\ pc = "getAccountID"
    /\ \E e \in Outcomes("") :
         /\ Charge(e)
         /\ Log("GetCallerIdentity", 0, 0, "", e)
         /\ IF e = "" /\ loc.caller = "createEKSCluster"
            THEN /\ pc' = "createVPCAndSubnets"
                 /\ UNCHANGED ret
            ELSE Finish(e, IF e = "" THEN Val(eksRoleName, 0, "arn") ELSE NoVal)
    /\ UNCHANGED <<world, op, loc, runs, history>>

\* ----------------------------------------------------- createVPCAndSubnets
createVPCAndSubnets_CreateVpc ==
    /\ pc = "createVPCAndSubnets"
    /\ \E e \in Outcomes("") :
         /\ Charge(e)
         /\ Log("CreateVpc", IF e = "" THEN nextId ELSE 0,
                IF e = "" THEN nextId ELSE 0, "", e)
         /\ IF e = ""
            THEN /\ res' = res \cup NewVpc(nextId)
                 /\ nextId' = nextId + 3
                 /\ loc' = [loc EXCEPT !.vpc = nextId]
                 /\ pc' = "vpc_EnableDnsHostnames"
                 /\ UNCHANGED ret
            ELSE /\ createEKSCluster_Fail(e)
                 /\ UNCHANGED <<res, nextId, loc>>
    /\ UNCHANGED <<iam, eksClusters, zones, propagated, op, runs, history>>

\* lines 306-312: a failure is a warning
createVPCAndSubnets_EnableDnsHostnames ==
    /\ pc = "vpc_EnableDnsHostnames"
    /\ \E e \in Outcomes("") :
         /\ Charge(e)
         /\ Log("ModifyVpcAttribute/EnableDnsHostnames", loc.vpc, loc.vpc, "", e)
         /\ res' = IF e = ""
                   THEN Replace([Get(loc.vpc) EXCEPT !.attrs = @ \cup {"EnableDnsHostnames"}])
                   ELSE res
    /\ pc' = "vpc_DescribeAvailabilityZones"
    /\ UNCHANGED <<iam, eksClusters, zones, propagated, nextId, op, loc, ret, runs, history>>

\* line 327: the zones the EKS network needs
ZonesNeeded == 2

createVPCAndSubnets_DescribeAvailabilityZones ==
    /\ pc = "vpc_DescribeAvailabilityZones"
    /\ \E e \in Outcomes("") :
         LET n == zones IN
         /\ Charge(e)
         /\ Log("DescribeAvailabilityZones", 0, loc.vpc, "", e)
         /\ IF e # ""
            THEN /\ createEKSCluster_Fail(e)
                 /\ UNCHANGED loc
            ELSE IF n < ZonesNeeded
            THEN /\ createEKSCluster_Fail("need at least 2 availability zones")
                 /\ UNCHANGED loc
            ELSE /\ loc' = [loc EXCEPT !.zones = n, !.i = 0, !.pub = <<>>,
                                       !.priv = <<>>]
                 /\ pc' = "CreateInternetGateway"
                 /\ UNCHANGED ret
    /\ UNCHANGED <<world, op, runs, history>>

createVPCAndSubnets_CreateInternetGateway ==
    /\ pc = "CreateInternetGateway"
    /\ \E e \in Outcomes("") :
         /\ Charge(e)
         /\ Log("CreateInternetGateway", IF e = "" THEN nextId ELSE 0, loc.vpc, "", e)
         /\ IF e = ""
            THEN /\ res' = res \cup
                      {[Tagged(nextId, "igw", 0) EXCEPT !.state = "detached"]}
                 /\ nextId' = nextId + 1
                 /\ loc' = [loc EXCEPT !.igw = nextId]
                 /\ pc' = "AttachInternetGateway"
                 /\ UNCHANGED ret
            ELSE /\ createEKSCluster_Fail(e)
                 /\ UNCHANGED <<res, nextId, loc>>
    /\ UNCHANGED <<iam, eksClusters, zones, propagated, op, runs, history>>

createVPCAndSubnets_AttachInternetGateway ==
    /\ pc = "AttachInternetGateway"
    /\ \E e \in Outcomes("") :
         /\ Charge(e)
         /\ Log("AttachInternetGateway", loc.igw, loc.vpc, "", e)
         /\ IF e = ""
            THEN /\ res' = Replace([Get(loc.igw) EXCEPT !.vpc = loc.vpc,
                                                        !.state = "available"])
                 /\ pc' = "vpc_CreateSubnet"
                 /\ UNCHANGED ret
            ELSE /\ createEKSCluster_Fail(e)
                 /\ UNCHANGED res
    /\ UNCHANGED <<iam, eksClusters, zones, propagated, nextId, op, loc, runs, history>>

\* lines 376 and 415: the third octet of the i-th public and private range
PublicOctet(i) == i * 10 + 1
PrivateOctetMut(i) == i * 10 + 1
PrivateOctet(i) == i * 10 + 2

\* One CreateSubnet of the loop (lines 372-452): the public subnet of zone
\* i, then its private subnet.
createVPCAndSubnets_CreateSubnet ==
    /\ pc = "vpc_CreateSubnet"
    /\ IF loc.i < 2
       THEN LET public == Len(loc.pub) = loc.i
                octet == IF public THEN PublicOctet(loc.i) ELSE PrivateOctet(loc.i)
            IN
            \E e \in Outcomes(CreateSubnetErr(loc.vpc, octet)) :
              /\ Charge(e)
              /\ Log("CreateSubnet", IF e = "" THEN nextId ELSE 0, loc.vpc,
                     IF public THEN "public" ELSE "private", e)
              /\ IF e = ""
                 THEN /\ res' = res \cup
                         {[Tagged(nextId, "subnet", loc.vpc) EXCEPT
                             !.sub = IF public THEN "public" ELSE "private",
                             !.octet = octet,
                             !.ref = loc.i + 1]}
                      /\ nextId' = nextId + 1
                      /\ loc' = IF public
                                THEN [loc EXCEPT !.pub = Append(@, nextId)]
                                ELSE [loc EXCEPT !.priv = Append(@, nextId),
                                                 !.i = @ + 1]
                      /\ UNCHANGED <<pc, ret>>
                 ELSE /\ createEKSCluster_Fail(e)
                      /\ UNCHANGED <<res, nextId, loc>>
       ELSE /\ pc' = "CreateRouteTable"
            /\ UNCHANGED <<res, nextId, loc, ret, calls, budget>>
    /\ UNCHANGED <<iam, eksClusters, zones, propagated, op, runs, history>>

createVPCAndSubnets_CreateRouteTable ==
    /\ pc = "CreateRouteTable"
    /\ \E e \in Outcomes("") :
         /\ Charge(e)
         /\ Log("CreateRouteTable", IF e = "" THEN nextId ELSE 0, loc.vpc, "", e)
         /\ IF e = ""
            THEN /\ res' = res \cup {Tagged(nextId, "rtb", loc.vpc)}
                 /\ nextId' = nextId + 1
                 /\ loc' = [loc EXCEPT !.rt = nextId]
                 /\ pc' = "CreateRoute"
                 /\ UNCHANGED ret
            ELSE /\ createEKSCluster_Fail(e)
                 /\ UNCHANGED <<res, nextId, loc>>
    /\ UNCHANGED <<iam, eksClusters, zones, propagated, op, runs, history>>

createVPCAndSubnets_CreateRoute ==
    /\ pc = "CreateRoute"
    /\ \E e \in Outcomes("") :
         /\ Charge(e)
         /\ Log("CreateRoute", loc.rt, loc.vpc, "", e)
         /\ IF e = ""
            THEN /\ res' = Replace([Get(loc.rt) EXCEPT !.ref = loc.igw])
                 /\ pc' = "AssociateRouteTable"
                 /\ loc' = [loc EXCEPT !.k = 1]
                 /\ UNCHANGED ret
            ELSE /\ createEKSCluster_Fail(e)
                 /\ UNCHANGED <<res, loc>>
    /\ UNCHANGED <<iam, eksClusters, zones, propagated, nextId, op, runs, history>>

\* lines 494-502: a failed association is a warning; after the last public
\* subnet the function returns (519) and createEKSCluster goes on (105)
createVPCAndSubnets_AssociateRouteTable ==
    /\ pc = "AssociateRouteTable"
    /\ IF loc.k <= Len(loc.pub)
       THEN \E e \in Outcomes("") :
              /\ Charge(e)
              /\ Log("AssociateRouteTable", loc.rt, loc.vpc, "", e)
              /\ res' = IF e = ""
                        THEN Replace([Get(loc.rt) EXCEPT
                                        !.assoc = @ \cup {loc.pub[loc.k]}])
                        ELSE res
              /\ pc' = "ModifySubnetAttribute"
       ELSE /\ pc' = "eks_CreateCluster"
            /\ UNCHANGED <<res, calls, budget>>
    /\ UNCHANGED <<iam, eksClusters, zones, propagated, nextId, op, loc, ret, runs, history>>

\* lines 504-510: a failure is a warning
createVPCAndSubnets_ModifySubnetAttribute ==
    /\ pc = "ModifySubnetAttribute"
    /\ \E e \in Outcomes("") :
         /\ Charge(e)
         /\ Log("ModifySubnetAttribute", loc.pub[loc.k], loc.vpc, "", e)
         /\ res' = IF e = ""
                   THEN Replace([Get(loc.pub[loc.k]) EXCEPT
                                   !.attrs = @ \cup {"MapPublicIpOnLaunch"}])
                   ELSE res
    /\ loc' = [loc EXCEPT !.k = @ + 1]
    /\ pc' = "AssociateRouteTable"
    /\ UNCHANGED <<iam, eksClusters, zones, propagated, nextId, op, ret, runs, history>>

\* --------------------------------------------------------- createEKSCluster
\* the service refuses a role it cannot see or a name that is taken
EksCreateClusterErr(name) ==
    IF name \in eksClusters THEN "ResourceInUseException"
    ELSE IF eksRoleName \notin iam.roles THEN "InvalidParameterException"
    ELSE ""

\* lines 105-117
createEKSCluster_CreateCluster ==
    /\ pc = "eks_CreateCluster"
    /\ \E e \in Outcomes(EksCreateClusterErr(op.name)) :
         /\ Charge(e)
         /\ Log("eks:CreateCluster", 0, loc.vpc, op.name, e)
         /\ IF e = ""
            THEN /\ eksClusters' = eksClusters \cup {op.name}
                 /\ pc' = "ClusterActiveWaiter"
                 /\ UNCHANGED ret
            ELSE /\ createEKSCluster_Fail(e)
                 /\ UNCHANGED eksClusters
    /\ UNCHANGED <<res, iam, propagated, nextId, zones, op, loc, runs, history>>

\* lines 121-142: the wait, then the descriptor (generateKubeconfig makes no
\* provider call)
createEKSCluster_ClusterActiveWaiter ==
    /\ pc = "ClusterActiveWaiter"
    /\ \E e \in Outcomes("") :
         /\ Charge(e)
         /\ Log("ClusterActiveWaiter", 0, loc.vpc, op.name, e)
         /\ Finish(e, IF e = "" THEN Val(op.name, 0, "active") ELSE NoVal)
    /\ UNCHANGED <<world, op, loc, runs, history>>

\* ------------------------------------------------------------ CreateCluster
\* lines 81-90 and the first call of the chosen path (lines 95, 149)
CreateCluster(name, type) ==
    /\ pc = "idle"
    /\ runs > 0
    /\ runs' = runs - 1
    /\ op' = [fn |-> "CreateCluster", name |-> name, type |-> type]
    /\ loc' = [LocInit EXCEPT !.caller = IF type = "eks" THEN "createEKSCluster"
                                         ELSE "createSingleNodeCluster"]
    /\ pc' = IF type = "eks" THEN "ensureEKSServiceRole"
             ELSE "ensureSSMInstanceProfile"
    /\ UNCHANGED <<world, calls, ret, history, budget>>

\* ---------------------------------------------- EC2 service: removal
Live(r) == r.state \notin {"shutting-down", "terminated"}

TerminateInstancesErr(id) ==
    IF ~Exists(id) THEN "InvalidInstanceID.NotFound" ELSE ""
DeleteVpcEndpointsErr(id) ==
    IF ~Exists(id) THEN "InvalidVpcEndpointId.NotFound" ELSE ""
DeleteNatGatewayErr(id) ==
    IF ~Exists(id) THEN "NatGatewayNotFound" ELSE ""
DetachInternetGatewayErr(id, vpc) ==
    IF ~Exists(id) THEN "InvalidInternetGatewayID.NotFound"
    ELSE IF Get(id).vpc # vpc THEN "Gateway.NotAttached"
    ELSE ""
DeleteInternetGatewayErr(id) ==
    IF ~Exists(id) THEN "InvalidInternetGatewayID.NotFound"
    ELSE IF Get(id).vpc # 0 THEN "DependencyViolation"
    ELSE ""
DeleteRouteTableErr(id) ==
    IF ~Exists(id) THEN "InvalidRouteTableID.NotFound"
    ELSE IF \E a \in Get(id).assoc : Exists(a) THEN "DependencyViolation"
    ELSE ""
DeleteSecurityGroupErr(id) ==
    IF ~Exists(id) THEN "InvalidGroup.NotFound"
    ELSE IF \E r \in res : r.kind = "vpce" /\ r.ref = id THEN "DependencyViolation"
    ELSE ""
\* a subnet cannot go while a network interface is left in it
DeleteSubnetErr(id) ==
    IF ~Exists(id) THEN "InvalidSubnetID.NotFound"
    ELSE IF \E r \in res :
              \/ r.kind = "instance" /\ r.ref = id /\ r.state # "terminated"
              \/ r.kind = "vpce" /\ id \in r.assoc
              \/ r.kind = "nat" /\ r.ref = id
    THEN "DependencyViolation"
    ELSE ""
\* a VPC cannot go while anything but its main route table and its default
\* security group is left in it
DeleteVpcErr(id) ==
    IF ~Exists(id) THEN "InvalidVpcID.NotFound"
    ELSE IF \E r \in res :
              /\ r.vpc = id
              /\ r.id # id
              /\ r.owner # "aws"
              /\ ~(r.kind = "instance" /\ r.state = "terminated")
    THEN "DependencyViolation"
    ELSE ""
\* DeleteVpc takes the main route table and the default group with it; the
\* record of a terminated instance stays
AfterDeleteVpc(id) ==
    {r \in res : r.vpc # id \/ r.kind = "instance"}

\* The provider finishes what it was asked to remove: endpoints and NAT
\* gateways in deletion disappear, instances shutting down are terminated.
ProviderConverges ==
    /\ \E r \in res : r.state \in {"deleting", "shutting-down"}
    /\ res' = {IF r.state = "shutting-down" THEN [r EXCEPT !.state = "terminated"]
               ELSE r : r \in {q \in res : q.state # "deleting"}}
    /\ UNCHANGED <<iam, eksClusters, zones, propagated, nextId, pc, op, loc, calls,
                   ret, history, budget, runs>>

\* The account owner adds a NAT gateway to a network the tool created, to
\* give its private subnet a way out.  The gateway carries no tag.
UserCreatesNatGateway ==
    /\ pc = "idle"
    /\ \E v \in {r \in res : r.kind = "vpc" /\ r.managed} :
         /\ OfKind("nat", v.id) = {}
         /\ OfKind("subnet", v.id) # {}
         /\ res' = res \cup
              {[NewRes(nextId, "nat", v.id, FALSE, FALSE) EXCEPT
                  !.owner = "user",
                  !.ref = (CHOOSE q \in OfKind("subnet", v.id) :
                              \A o \in OfKind("subnet", v.id) : q.id <= o.id).id]}
    /\ nextId' = nextId + 1
    /\ UNCHANGED <<iam, eksClusters, zones, propagated, pc, op, loc, calls,
                   ret, history, budget, runs>>

\* The account owner starts a worker node in a public subnet of the network
\* the tool made for an EKS cluster and labels it with the cluster's name.
UserLaunchesNode ==
    /\ pc = "idle"
    /\ \E v \in {r \in res : r.kind = "vpc" /\ r.managed},
          name \in eksClusters :
         LET public == {q \in OfKind("subnet", v.id) : q.sub = "public"} IN
         /\ public # {}
         /\ OfKind("instance", v.id) = {}
         /\ res' = res \cup
              {[NewRes(nextId, "instance", v.id, FALSE, FALSE) EXCEPT
                  !.owner = "user", !.cluster = name, !.state = "running",
                  !.ref = (CHOOSE q \in public : \A o \in public : q.id <= o.id).id]}
    /\ nextId' = nextId + 1
    /\ UNCHANGED <<iam, eksClusters, zones, propagated, pc, op, loc, calls,
                   ret, history, budget, runs>>

\* ------------------------------------------------------------ DeleteCluster
DeleteCluster(name) ==
    /\ pc = "idle"
    /\ runs > 0
    /\ runs' = runs - 1
    /\ op' = [fn |-> "DeleteCluster", name |-> name, type |-> ""]
    /\ loc' = LocInit
    /\ pc' = "findClusterInstances"
    /\ UNCHANGED <<world, calls, ret, history, budget>>

\* lines 1222-1231: the filter of the instance discovery
ClusterInstanceFilter(r, clusterName) ==
    /\ r.kind = "instance"
    /\ r.cluster = clusterName
    /\ r.state \in {"running", "stopped", "stopping", "pending"}

\* lines 1147-1150: a failed discovery ends DeleteCluster with an error
findClusterInstances ==
    /\ pc = "findClusterInstances"
    /\ \E e \in Outcomes("") :
         /\ Charge(e)
         /\ Log("DescribeInstances", 0, 0, op.name, e)
         /\ IF e = ""
            THEN /\ loc' = [loc EXCEPT
                      !.instances = SortedIds({r.id : r \in
                          {q \in res : ClusterInstanceFilter(q, op.name)}}),
                      !.i = 1, !.vpcIds = {}]
                 /\ pc' = "TerminateInstances"
                 /\ UNCHANGED ret
            ELSE /\ Finish(e, NoVal)
                 /\ UNCHANGED loc
    /\ UNCHANGED <<world, op, runs, history>>

\* lines 1160-1167, and the step to the wait loop (1177) or past it
DeleteCluster_TerminateInstances ==
    /\ pc = "TerminateInstances"
    /\ IF loc.i <= Len(loc.instances)
       THEN LET id == loc.instances[loc.i] IN
            \E e \in Outcomes(TerminateInstancesErr(id)) :
              /\ Charge(e)
              /\ Log("TerminateInstances", id, 0, "", e)
              /\ res' = IF e = "" /\ Live(Get(id))
                        THEN Replace([Get(id) EXCEPT !.state = "shutting-down"])
                        ELSE res
              /\ pc' = "getInstanceVPC"
              /\ UNCHANGED loc
       ELSE /\ pc' = IF Len(loc.instances) > 0 THEN "InstanceTerminatedWaiter"
                     ELSE "isXstrapolateManagedVPC"
            /\ loc' = [loc EXCEPT !.i = 1]
            /\ UNCHANGED <<res, calls, budget>>
    /\ UNCHANGED <<iam, eksClusters, zones, propagated, nextId, op, ret, runs, history>>

\* lines 1170-1173 with getInstanceVPC (1247-1260)
getInstanceVPC ==
    /\ pc = "getInstanceVPC"
    /\ LET id == loc.instances[loc.i] IN
       \E e \in Outcomes(IF Exists(id) THEN "" ELSE "InvalidInstanceID.NotFound") :
         /\ Charge(e)
         /\ Log("DescribeInstances", id, 0, "", e)
         /\ loc' = [loc EXCEPT
               !.i = @ + 1,
               !.vpcIds = IF e = "" /\ Get(id).vpc # 0
                          THEN @ \cup {Get(id).vpc} ELSE @]
    /\ pc' = "TerminateInstances"
    /\ UNCHANGED <<world, op, ret, runs, history>>

\* lines 1179-1187: the waiter returns once the instance is terminated; an
\* instance that was never asked to terminate lets it time out
DeleteCluster_InstanceTerminatedWaiter ==
    /\ pc = "InstanceTerminatedWaiter"
    /\ IF loc.i <= Len(loc.instances)
       THEN LET id == loc.instances[loc.i] IN
            \E e \in Outcomes(IF Exists(id) /\ Live(Get(id))
                              THEN "exceeded max wait time" ELSE "") :
              /\ Charge(e)
              /\ Log("InstanceTerminatedWaiter", id, 0, "", e)
              /\ res' = IF e = "" /\ Exists(id)
                        THEN Replace([Get(id) EXCEPT !.state = "terminated"])
                        ELSE res
              /\ loc' = [loc EXCEPT !.i = @ + 1]
              /\ UNCHANGED pc
       ELSE /\ pc' = "isXstrapolateManagedVPC"
            /\ UNCHANGED <<res, loc, calls, budget>>
    /\ UNCHANGED <<iam, eksClusters, zones, propagated, nextId, op, ret, runs, history>>

\* The order of the helpers in deleteVPCResources (lines 1283-1336): the
\* label of the step that follows the helper at this label.
StepsMut ==
    <<"deleteSubnets", "deleteNATGateways", "deleteInternetGateways",
      "deleteRouteTables", "deleteSecurityGroups", "deleteVPCEndpoints",
      "DeleteVpc">>
Steps ==
    <<"deleteVPCEndpoints", "deleteNATGateways", "deleteInternetGateways",
      "deleteRouteTables", "deleteSecurityGroups", "deleteSubnets",
      "DeleteVpc">>
FirstStep == Steps[1]
AfterMut(step) ==
    LET swapped == <<"deleteVPCEndpoints", "deleteInternetGateways",
                     "deleteNATGateways", "deleteRouteTables",
                     "deleteSecurityGroups", "deleteSubnets", "DeleteVpc">>
    IN  swapped[(CHOOSE n \in 1..Len(swapped) : swapped[n] = step) + 1]
After(step) == Steps[(CHOOSE n \in 1..Len(Steps) : Steps[n] = step) + 1]

\* lines 1262-1277: the VPC is there and carries xstrapolate-managed=true
ManagedVPCFilter(r, vpcId) == r.kind = "vpc" /\ r.id = vpcId /\ r.managed

\* lines 1199-1204: the VPC is cleaned up
CleansUpMut(e, isManaged) == e = ""
CleansUp(e, isManaged) == e = "" /\ isManaged

\* lines 1192-1202: the next VPC of the map, in any order, and its
\* ownership check; after the last VPC the IAM cleanup (1211)
isXstrapolateManagedVPC ==
    /\ pc = "isXstrapolateManagedVPC"
    /\ IF loc.vpcIds # {}
       THEN \E vpcId \in loc.vpcIds :
            \E e \in Outcomes(IF Exists(vpcId) THEN "" ELSE "InvalidVpcID.NotFound") :
              /\ Charge(e)
              /\ Log("DescribeVpcs", vpcId, vpcId, "", e)
              /\ loc' = [loc EXCEPT !.vpcIds = @ \ {vpcId}, !.vpc = vpcId,
                                    !.endpointIds = <<>>]
              /\ pc' = IF CleansUp(e, \E r \in res : ManagedVPCFilter(r, vpcId))
                       THEN FirstStep
                       ELSE "isXstrapolateManagedVPC"
       ELSE /\ pc' = "deleteSSMRole"
            /\ UNCHANGED <<loc, calls, budget>>
    /\ UNCHANGED <<world, op, ret, runs, history>>

\* -------------------------------------------------- deleteVPCResources
\* A step of the shape the delete helpers share: one Describe call with the
\* helper's filter; its failure makes the helper return the error, which
\* deleteVPCResources only reports before it goes on with the next helper.
ListStep(here, call, found, loop, after) ==
    /\ pc = here
    /\ \E e \in Outcomes("") :
         /\ Charge(e)
         /\ Log(call, 0, loc.vpc, "", e)
         /\ loc' = IF e = ""
                   THEN [loc EXCEPT !.ids = SortedIds({r.id : r \in found}),
                                    !.k = 1, !.retry = 0]
                   ELSE [loc EXCEPT !.ids = <<>>, !.k = 1, !.retry = 0]
         /\ pc' = IF e = "" THEN loop ELSE after
    /\ UNCHANGED <<world, op, ret, runs, history>>

\* The loop over the resources found: one delete call per pass, a failure
\* is reported and the loop goes on; after the last pass the helper returns.
\* the resource the loop of a delete helper stands at (0 after the last)
Current == IF loc.k <= Len(loc.ids) THEN loc.ids[loc.k] ELSE 0

\* err is what the provider answers to the delete of Current, effect the
\* account once the delete went through.
SweepStep(here, call, err, effect, after) ==
    /\ pc = here
    /\ IF loc.k <= Len(loc.ids)
       THEN LET id == Current IN
            \E e \in Outcomes(err) :
              /\ Charge(e)
              /\ Log(call, id, loc.vpc, "", e)
              /\ res' = IF e = "" THEN effect ELSE res
              /\ loc' = [loc EXCEPT !.k = @ + 1]
              /\ UNCHANGED pc
       ELSE /\ pc' = after
            /\ UNCHANGED <<res, loc, calls, budget>>
    /\ UNCHANGED <<iam, eksClusters, zones, propagated, nextId, op, ret, runs, history>>

\* lines 1568 and 1613: the delete is tried again
RetryDeleteMut(e, retry) == retry < maxDeleteRetries - 1
RetryDelete(e, retry) == retry < maxDeleteRetries - 1 /\ e = "DependencyViolation"

\* The loop of deleteSecurityGroups and deleteSubnets: up to three delete
\* calls per resource.
RetrySweepStep(here, call, err, after) ==
    /\ pc = here
    /\ IF loc.k <= Len(loc.ids)
       THEN LET id == Current IN
            \E e \in Outcomes(err) :
              /\ Charge(e)
              /\ Log(call, id, loc.vpc, "", e)
              /\ res' = IF e = "" THEN Without(id) ELSE res
              /\ loc' = IF e # "" /\ RetryDelete(e, loc.retry)
                        THEN [loc EXCEPT !.retry = @ + 1]
                        ELSE [loc EXCEPT !.k = @ + 1, !.retry = 0]
              /\ UNCHANGED pc
       ELSE /\ pc' = after
            /\ UNCHANGED <<res, loc, calls, budget>>
    /\ UNCHANGED <<iam, eksClusters, zones, propagated, nextId, op, ret, runs, history>>

SetState(id, st) == Replace([Get(id) EXCEPT !.state = st])

\* lines 1346-1357
EndpointFilter(r, vpcId) == r.kind = "vpce" /\ r.vpc = vpcId /\ r.managed
\* lines 1425-1436: the only filter without the ownership tag
NatGatewayFilter(r, vpcId) ==
    r.kind = "nat" /\ r.vpc = vpcId /\ r.state = "available"
\* lines 1456-1467
InternetGatewayFilter(r, vpcId) == r.kind = "igw" /\ r.vpc = vpcId /\ r.managed
\* lines 1498-1513: association.main=false matches a table with a subnet
\* association
RouteTableFilter(r, vpcId) ==
    r.kind = "rtb" /\ r.vpc = vpcId /\ r.sub # "main" /\ r.assoc # {} /\ r.managed
\* lines 1533-1544 and the skip of the default group (1551-1553)
SecurityGroupFilter(r, vpcId) ==
    r.kind = "sg" /\ r.vpc = vpcId /\ r.managed /\ r.sub # "default"
\* lines 1583-1594
SubnetFilter(r, vpcId) == r.kind = "subnet" /\ r.vpc = vpcId /\ r.managed

deleteVPCEndpoints_Describe ==
    ListStep("deleteVPCEndpoints", "DescribeVpcEndpoints",
             {r \in res : EndpointFilter(r, loc.vpc)},
             "DeleteVpcEndpoints", After("deleteVPCEndpoints"))

\* lines 1363-1373 and, back in deleteVPCResources, line 1289
deleteVPCEndpoints_DeleteVpcEndpoints ==
    /\ pc = "DeleteVpcEndpoints"
    /\ IF loc.k <= Len(loc.ids)
       THEN LET id == loc.ids[loc.k] IN
            \E e \in Outcomes(DeleteVpcEndpointsErr(id)) :
              /\ Charge(e)
              /\ Log("DeleteVpcEndpoints", id, loc.vpc, "", e)
              /\ res' = IF e = "" THEN SetState(id, "deleting") ELSE res
              /\ loc' = [loc EXCEPT !.k = @ + 1,
                                    !.endpointIds = Append(@, id)]
              /\ UNCHANGED pc
       ELSE /\ pc' = IF Len(loc.endpointIds) > 0 THEN "waitForVPCEndpointsDeletion"
                     ELSE After("deleteVPCEndpoints")
            /\ loc' = [loc EXCEPT !.polls = 0]
            /\ UNCHANGED <<res, calls, budget>>
    /\ UNCHANGED <<iam, eksClusters, zones, propagated, nextId, op, ret, runs, history>>

\* lines 1398-1399: the read failure that means the endpoints are gone
EndpointsGone(e) == e = "InvalidVpcEndpointId.NotFound"

\* lines 1380-1388: the deadline of maxWait has passed
DeadlinePassed(polls) == polls >= maxEndpointTicks

\* One round of the select loop (lines 1386-1421): the deadline, or a tick
\* with its read.  The wait's result is logged when it returns.
waitForVPCEndpointsDeletion ==
    /\ pc = "waitForVPCEndpointsDeletion"
    /\ IF DeadlinePassed(loc.polls)
       THEN /\ Log("waitForVPCEndpointsDeletion", 0, loc.vpc, "", "timeout")
            /\ pc' = After("deleteVPCEndpoints")
            /\ loc' = [loc EXCEPT !.polls = 0]
            /\ UNCHANGED budget
       ELSE \E e \in Outcomes(IF \A id \in Range(loc.endpointIds) : Exists(id)
                              THEN "" ELSE "InvalidVpcEndpointId.NotFound") :
              /\ Charge(e)
              /\ IF e = ""
                 THEN /\ loc' = [loc EXCEPT !.polls = @ + 1]
                      /\ UNCHANGED <<pc, calls>>
                 ELSE /\ Log("waitForVPCEndpointsDeletion", 0, loc.vpc, "",
                             IF EndpointsGone(e) THEN "" ELSE e)
                      /\ pc' = After("deleteVPCEndpoints")
                      /\ loc' = [loc EXCEPT !.polls = 0]
    /\ UNCHANGED <<world, op, ret, runs, history>>

deleteNATGateways_Describe ==
    ListStep("deleteNATGateways", "DescribeNatGateways",
             {r \in res : NatGatewayFilter(r, loc.vpc)},
             "DeleteNatGateway", After("deleteNATGateways"))
deleteNATGateways_DeleteNatGateway ==
    SweepStep("DeleteNatGateway", "DeleteNatGateway", DeleteNatGatewayErr(Current),
              IF Exists(Current) THEN SetState(Current, "deleting") ELSE res,
              After("deleteNATGateways"))

deleteInternetGateways_Describe ==
    ListStep("deleteInternetGateways", "DescribeInternetGateways",
             {r \in res : InternetGatewayFilter(r, loc.vpc)},
             "DetachInternetGateway", After("deleteInternetGateways"))

\* lines 1477-1483: detach, then (1486) delete the same gateway
deleteInternetGateways_DetachInternetGateway ==
    /\ pc = "DetachInternetGateway"
    /\ IF loc.k <= Len(loc.ids)
       THEN LET id == loc.ids[loc.k] IN
            \E e \in Outcomes(DetachInternetGatewayErr(id, loc.vpc)) :
              /\ Charge(e)
              /\ Log("DetachInternetGateway", id, loc.vpc, "", e)
              /\ res' = IF e = ""
                        THEN Replace([Get(id) EXCEPT !.vpc = 0, !.state = "detached"])
                        ELSE res
              /\ pc' = "DeleteInternetGateway"
       ELSE /\ pc' = After("deleteInternetGateways")
            /\ UNCHANGED <<res, calls, budget>>
    /\ UNCHANGED <<iam, eksClusters, zones, propagated, nextId, op, loc, ret, runs, history>>

deleteInternetGateways_DeleteInternetGateway ==
    /\ pc = "DeleteInternetGateway"
    /\ LET id == loc.ids[loc.k] IN
       \E e \in Outcomes(DeleteInternetGatewayErr(id)) :
         /\ Charge(e)
         /\ Log("DeleteInternetGateway", id, loc.vpc, "", e)
         /\ res' = IF e = "" THEN Without(id) ELSE res
    /\ loc' = [loc EXCEPT !.k = @ + 1]
    /\ pc' = "DetachInternetGateway"
    /\ UNCHANGED <<iam, eksClusters, zones, propagated, nextId, op, ret, runs, history>>

deleteRouteTables_Describe ==
    ListStep("deleteRouteTables", "DescribeRouteTables",
             {r \in res : RouteTableFilter(r, loc.vpc)},
             "DeleteRouteTable", After("deleteRouteTables"))
deleteRouteTables_DeleteRouteTable ==
    SweepStep("DeleteRouteTable", "DeleteRouteTable", DeleteRouteTableErr(Current),
              Without(Current), After("deleteRouteTables"))

deleteSecurityGroups_Describe ==
    ListStep("deleteSecurityGroups", "DescribeSecurityGroups",
             {r \in res : SecurityGroupFilter(r, loc.vpc)},
             "DeleteSecurityGroup", After("deleteSecurityGroups"))
deleteSecurityGroups_DeleteSecurityGroup ==
    RetrySweepStep("DeleteSecurityGroup", "DeleteSecurityGroup",
                   DeleteSecurityGroupErr(Current), After("deleteSecurityGroups"))

deleteSubnets_Describe ==
    ListStep("deleteSubnets", "DescribeSubnets",
             {r \in res : SubnetFilter(r, loc.vpc)},
             "DeleteSubnet", After("deleteSubnets"))
deleteSubnets_DeleteSubnet ==
    RetrySweepStep("DeleteSubnet", "DeleteSubnet", DeleteSubnetErr(Current),
                   After("deleteSubnets"))

\* lines 1334-1339 and, back in DeleteCluster, 1205-1208: the next VPC
deleteVPCResources_DeleteVpc ==
    /\ pc = "DeleteVpc"
    /\ \E e \in Outcomes(DeleteVpcErr(loc.vpc)) :
         /\ Charge(e)
         /\ Log("DeleteVpc", loc.vpc, loc.vpc, "", e)
         /\ res' = IF e = "" THEN AfterDeleteVpc(loc.vpc) ELSE res
    /\ pc' = "isXstrapolateManagedVPC"
    /\ UNCHANGED <<iam, eksClusters, zones, propagated, nextId, op, loc, ret, runs, history>>

\* ---------------------------------------------------- deleteIAMResources
RemoveRoleFromInstanceProfileErr(profile, role) ==
    IF <<profile, role>> \notin iam.bound THEN "NoSuchEntity" ELSE ""
DeleteInstanceProfileErr(profile) ==
    IF profile \notin iam.profiles THEN "NoSuchEntity"
    ELSE IF BoundRoles(profile) # {} THEN "DeleteConflict"
    ELSE ""
DetachRolePolicyErr(role) ==
    IF role \notin iam.attached THEN "NoSuchEntity" ELSE ""
DeleteRoleErr(role) ==
    IF role \notin iam.roles THEN "NoSuchEntity"
    ELSE IF role \in iam.attached \/ (\E b \in iam.bound : b[2] = role)
    THEN "DeleteConflict"
    ELSE ""

\* A step of the shape the IAM cleanup is made of: one call by name, a
\* failure is reported and the cleanup goes on.
IamStep(here, call, name, sem, after, newIam) ==
    /\ pc = here
    /\ \E e \in Outcomes(sem) :
         /\ Charge(e)
         /\ Log(call, 0, 0, name, e)
         /\ iam' = IF e = "" THEN newIam ELSE iam
    /\ pc' = after
    /\ UNCHANGED <<res, eksClusters, zones, propagated, nextId, op, loc, ret, runs, history>>

\* lines 1650-1684
deleteSSMRole_RemoveRoleFromInstanceProfile ==
    IamStep("deleteSSMRole", "RemoveRoleFromInstanceProfile", ssmProfileName,
            RemoveRoleFromInstanceProfileErr(ssmProfileName, ssmRoleName),
            "DeleteInstanceProfile",
            [iam EXCEPT !.bound = @ \ {<<ssmProfileName, ssmRoleName>>}])
deleteSSMRole_DeleteInstanceProfile ==
    IamStep("DeleteInstanceProfile", "DeleteInstanceProfile", ssmProfileName,
            DeleteInstanceProfileErr(ssmProfileName), "DetachRolePolicy",
            [iam EXCEPT !.profiles = @ \ {ssmProfileName}])
deleteSSMRole_DetachRolePolicy ==
    IamStep("DetachRolePolicy", "DetachRolePolicy", ssmRoleName,
            DetachRolePolicyErr(ssmRoleName), "DeleteRole",
            [iam EXCEPT !.attached = @ \ {ssmRoleName}])
deleteSSMRole_DeleteRole ==
    IamStep("DeleteRole", "DeleteRole", ssmRoleName,
            DeleteRoleErr(ssmRoleName), "deleteEKSRole",
            [iam EXCEPT !.roles = @ \ {ssmRoleName}])

\* lines 1692-1701: the role is looked up first; then lines 1211-1217, the
\* end of DeleteCluster
deleteEKSRole_GetRole ==
    /\ pc = "deleteEKSRole"
    /\ \E e \in Outcomes(IF eksRoleName \in iam.roles THEN "" ELSE "NoSuchEntity") :
         /\ Charge(e)
         /\ Log("GetRole", 0, 0, eksRoleName, e)
         /\ IF e = ""
            THEN /\ pc' = "eks_DetachRolePolicy"
                 /\ UNCHANGED ret
            ELSE Finish("", NoVal)
    /\ UNCHANGED <<world, op, loc, runs, history>>
deleteEKSRole_DetachRolePolicy ==
    IamStep("eks_DetachRolePolicy", "DetachRolePolicy", eksRoleName,
            DetachRolePolicyErr(eksRoleName), "eks_DeleteRole",
            [iam EXCEPT !.attached = @ \ {eksRoleName}])
deleteEKSRole_DeleteRole ==
    /\ pc = "eks_DeleteRole"
    /\ \E e \in Outcomes(DeleteRoleErr(eksRoleName)) :
         /\ Charge(e)
         /\ Log("DeleteRole", 0, 0, eksRoleName, e)
         /\ iam' = IF e = "" THEN [iam EXCEPT !.roles = @ \ {eksRoleName}] ELSE iam
    /\ Finish("", NoVal)
    /\ UNCHANGED <<res, eksClusters, zones, propagated, nextId, op, loc, runs, history>>

\* The operator interrupts a running teardown: the process is gone, the
\* account stays as the teardown left it.
Interrupt ==
    /\ op.fn = "DeleteCluster"
    /\ pc \notin {"idle", "done"}
    /\ pc' = "idle"
    /\ history' = Append(history, [fn |-> op.fn, name |-> op.name, type |-> op.type,
                                   err |-> "interrupted", val |-> NoVal, iam |-> iam,
                                   vpc |-> loc.vpc])
    /\ calls' = <<>>
    /\ ret' = NoRet
    /\ loc' = LocInit
    /\ UNCHANGED <<world, op, budget, runs>>

deleteCluster ==
    \/ findClusterInstances
    \/ DeleteCluster_TerminateInstances
    \/ getInstanceVPC
    \/ DeleteCluster_InstanceTerminatedWaiter
    \/ isXstrapolateManagedVPC
    \/ deleteVPCEndpoints_Describe
    \/ deleteVPCEndpoints_DeleteVpcEndpoints
    \/ waitForVPCEndpointsDeletion
    \/ deleteNATGateways_Describe
    \/ deleteNATGateways_DeleteNatGateway
    \/ deleteInternetGateways_Describe
    \/ deleteInternetGateways_DetachInternetGateway
    \/ deleteInternetGateways_DeleteInternetGateway
    \/ deleteRouteTables_Describe
    \/ deleteRouteTables_DeleteRouteTable
    \/ deleteSecurityGroups_Describe
    \/ deleteSecurityGroups_DeleteSecurityGroup
    \/ deleteSubnets_Describe
    \/ deleteSubnets_DeleteSubnet
    \/ deleteVPCResources_DeleteVpc
    \/ deleteSSMRole_RemoveRoleFromInstanceProfile
    \/ deleteSSMRole_DeleteInstanceProfile
    \/ deleteSSMRole_DetachRolePolicy
    \/ deleteSSMRole_DeleteRole
    \/ deleteEKSRole_GetRole
    \/ deleteEKSRole_DetachRolePolicy
    \/ deleteEKSRole_DeleteRole

createEKSCluster ==
    \/ ensureEKSServiceRole_CreateRole
    \/ ensureEKSServiceRole_AttachRolePolicy
    \/ ensureEKSServiceRole_getAccountID
    \/ createVPCAndSubnets_CreateVpc
    \/ createVPCAndSubnets_EnableDnsHostnames
    \/ createVPCAndSubnets_DescribeAvailabilityZones
    \/ createVPCAndSubnets_CreateInternetGateway
    \/ createVPCAndSubnets_AttachInternetGateway
    \/ createVPCAndSubnets_CreateSubnet
    \/ createVPCAndSubnets_CreateRouteTable
    \/ createVPCAndSubnets_CreateRoute
    \/ createVPCAndSubnets_AssociateRouteTable
    \/ createVPCAndSubnets_ModifySubnetAttribute
    \/ createEKSCluster_CreateCluster
    \/ createEKSCluster_ClusterActiveWaiter

createSingleNodeCluster ==
    \/ ensureSSMInstanceProfile_CreateRole
    \/ ensureSSMInstanceProfile_AttachRolePolicy
    \/ ensureSSMInstanceProfile_CreateInstanceProfile
    \/ ensureSSMInstanceProfile_AddRoleToInstanceProfile
    \/ waitForInstanceProfile
    \/ createVPCAndSubnetsForSSM_CreateVpc
    \/ createVPCAndSubnetsForSSM_EnableDnsSupport
    \/ createVPCAndSubnetsForSSM_EnableDnsHostnames
    \/ createVPCAndSubnetsForSSM_DescribeAvailabilityZones
    \/ createVPCAndSubnetsForSSM_CreateSubnet
    \/ createSSMVPCEndpoints_CreateSecurityGroup
    \/ createSSMVPCEndpoints_AuthorizeSecurityGroupIngress
    \/ createSSMVPCEndpoints_CreateVpcEndpoint
    \/ getLatestAmazonLinuxAMI
    \/ createEC2Instance_RunInstances

Next ==
    \/ \E type \in ClusterTypes : CreateCluster("a", type)
    \/ createEKSCluster
    \/ createSingleNodeCluster
    \/ \E name \in ClusterNames : DeleteCluster(name)
    \/ deleteCluster
    \/ Exit
    \/ ProviderConverges
    \/ UserCreatesNatGateway
    \/ UserLaunchesNode

\* a teardown whose provider calls may fail
Init == InitWith({"DeleteCluster"}, MaxFaults, MaxRuns)
Spec == Init /\ [][Next]_vars

\* creations whose provider calls may fail
InitCreate == InitWith({"CreateCluster"}, MaxFaults, MaxRuns)
NextCreate ==
    \/ \E type \in ClusterTypes : CreateCluster("a", type)
    \/ createEKSCluster
    \/ createSingleNodeCluster
    \/ Exit
SpecCreate == InitCreate /\ [][NextCreate]_vars

\* creations and teardowns of one cluster without provider faults, where
\* the operator may interrupt a teardown and run it again
InitRerun == InitWith({}, 0, MaxRuns + 1)
NextRerun ==
    \/ \E type \in ClusterTypes : CreateCluster("a", type)
    \/ createEKSCluster
    \/ createSingleNodeCluster
    \/ DeleteCluster("a")
    \/ deleteCluster
    \/ Interrupt
    \/ Exit
    \/ ProviderConverges
    \/ UserLaunchesNode
SpecRerun == InitRerun /\ [][NextRerun]_vars

\* the identity provisioning functions called on their own
ensureSSMInstanceProfile ==
    /\ pc = "idle"
    /\ runs > 0
    /\ runs' = runs - 1
    /\ op' = [fn |-> "ensureSSMInstanceProfile", name |-> "", type |-> ""]
    /\ loc' = LocInit
    /\ pc' = "ensureSSMInstanceProfile"
    /\ UNCHANGED <<world, calls, ret, history, budget>>

ensureEKSServiceRole ==
    /\ pc = "idle"
    /\ runs > 0
    /\ runs' = runs - 1
    /\ op' = [fn |-> "ensureEKSServiceRole", name |-> "", type |-> ""]
    /\ loc' = LocInit
    /\ pc' = "ensureEKSServiceRole"
    /\ UNCHANGED <<world, calls, ret, history, budget>>

InitIdentity ==
    InitWith({"ensureSSMInstanceProfile", "ensureEKSServiceRole"},
             MaxFaults, MaxRuns)
NextIdentity ==
    \/ ensureSSMInstanceProfile
    \/ ensureSSMInstanceProfile_CreateRole
    \/ ensureSSMInstanceProfile_AttachRolePolicy
    \/ ensureSSMInstanceProfile_CreateInstanceProfile
    \/ ensureSSMInstanceProfile_AddRoleToInstanceProfile
    \/ ensureEKSServiceRole
    \/ ensureEKSServiceRole_CreateRole
    \/ ensureEKSServiceRole_AttachRolePolicy
    \/ ensureEKSServiceRole_getAccountID
    \/ Exit
SpecIdentity == InitIdentity /\ [][NextIdentity]_vars

\* Creation and teardown, both with provider faults.
InitWaits == InitWith({"CreateCluster", "DeleteCluster"}, MaxFaults, MaxRuns)
SpecWaits == InitWaits /\ [][Next]_vars

\* The same, where every provider call returns: the running function
\* takes its next step as long as it has one.
Running == createEKSCluster \/ createSingleNodeCluster \/ deleteCluster
SpecReturns == InitWaits /\ [][Next]_vars /\ WF_vars(Running)

\* ------------------------------------------------------ the command layer
\* src/cmd/cluster.go: the create and teardown commands around the manager.
\* loc.cmd, loc.cloud and loc.force hold the command and its flags; a
\* command's own error ends it at pc = "return".
\* the two commands InstallFlux runs, in the order of its list
commands == <<"flux check --pre", "flux install">>

\* the command returns e (nil when e = "")
Return(e) ==
    /\ pc' = "return"
    /\ ret' = [err |-> e, val |-> ret.val]

\* "failed to ...: %w"
Wrap(prefix, e) == prefix \o ": " \o e

\* the manager the provider flag selects, or the error of the switch
SelectManager(cloudProvider) ==
    CASE cloudProvider = "aws" -> /\ pc' = "NewAWSManager"
                                  /\ UNCHANGED ret
      [] cloudProvider = "azure" -> /\ pc' = "NewAzureManager"
                                    /\ UNCHANGED ret
      [] OTHER -> Return(Wrap("unsupported cloud provider", cloudProvider))

\* cluster.go lines 28-50
createCmd_RunE(clusterName, cloudProvider, clusterType) ==
    /\ pc = "idle"
    /\ runs > 0
    /\ runs' = runs - 1
    /\ op' = [fn |-> "CreateCluster", name |-> clusterName, type |-> clusterType]
    /\ loc' = [LocInit EXCEPT !.cmd = "create", !.cloud = cloudProvider]
    /\ IF cloudProvider = ""
       THEN Return("cloud provider must be specified")
       ELSE SelectManager(cloudProvider)
    /\ UNCHANGED <<world, calls, history, budget>>

\* cluster.go line 108: whether the teardown was confirmed
ConfirmedMut(force) == TRUE
Confirmed(force) == force

\* cluster.go lines 99-127
teardownCmd_RunE(clusterName, cloudProvider, force) ==
    /\ pc = "idle"
    /\ runs > 0
    /\ runs' = runs - 1
    /\ op' = [fn |-> "DeleteCluster", name |-> clusterName, type |-> ""]
    /\ loc' = [LocInit EXCEPT !.cmd = "teardown", !.cloud = cloudProvider,
                              !.force = force]
    /\ IF cloudProvider = ""
       THEN Return("cloud provider must be specified")
       ELSE IF ~Confirmed(force)
       THEN Return("teardown cancelled - use --force to confirm")
       ELSE SelectManager(cloudProvider)
    /\ UNCHANGED <<world, calls, history, budget>>

\* whether a manager constructor hands out a manager
ManagerBuiltMut(e) == TRUE
ManagerBuilt(e) == e = ""

\* cluster.go lines 52-55 and 129-132: the error of the constructor ends the
\* command, otherwise the manager's function is called
ManagerResult(e) ==
    IF ManagerBuilt(e)
    THEN /\ pc' = IF loc.cmd = "create" THEN "manager.CreateCluster"
                  ELSE "manager.DeleteCluster"
         /\ UNCHANGED ret
    ELSE Return(Wrap("failed to initialize cloud manager", e))

\* aws.go lines 32-79: the configuration is loaded, then the credentials are
\* validated by the one call GetCallerIdentity
NewAWSManager ==
    /\ pc = "NewAWSManager"
    /\ \/ /\ ManagerResult("failed to load AWS config")
          /\ UNCHANGED calls
       \/ \E e \in {"", "InvalidClientTokenId"} :
            /\ Log("sts:GetCallerIdentity", 0, 0, "", e)
            /\ ManagerResult(IF e = "" THEN ""
                             ELSE Wrap("failed to validate AWS credentials", e))
    /\ UNCHANGED <<world, op, loc, history, budget, runs>>

\* aws.go lines 1747-1771: no provider call is made
NewAzureManager ==
    /\ pc = "NewAzureManager"
    /\ \E e \in {"", "Azure subscription ID not configured",
                 "failed to create Azure credential"} : ManagerResult(e)
    /\ UNCHANGED <<world, op, loc, calls, history, budget, runs>>

\* cluster.go line 55: AWSManager.CreateCluster (aws.go lines 81-90) or
\* AzureManager.CreateCluster (lines 1773-1832), which returns a descriptor
\* without calling the provider
createCmd_CreateCluster ==
    /\ pc = "manager.CreateCluster"
    /\ IF loc.cloud = "aws"
       THEN IF op.type \in ClusterTypes
            THEN /\ pc' = IF op.type = "eks" THEN "ensureEKSServiceRole"
                          ELSE "ensureSSMInstanceProfile"
                 /\ loc' = [loc EXCEPT !.caller =
                              IF op.type = "eks" THEN "createEKSCluster"
                              ELSE "createSingleNodeCluster"]
                 /\ UNCHANGED ret
            ELSE /\ Finish(Wrap("unsupported cluster type for AWS", op.type), NoVal)
                 /\ UNCHANGED loc
       ELSE /\ IF op.type \in {"aks", "single-node"}
               THEN Finish("", Val(op.name, 0, "active"))
               ELSE Finish(Wrap("unsupported cluster type for Azure", op.type),
                           NoVal)
            /\ UNCHANGED loc
    /\ UNCHANGED <<world, op, calls, history, budget, runs>>

\* cluster.go line 132: AWSManager.DeleteCluster (aws.go line 1143) or
\* AzureManager.DeleteCluster (lines 1834-1836)
teardownCmd_DeleteCluster ==
    /\ pc = "manager.DeleteCluster"
    /\ IF loc.cloud = "aws"
       THEN /\ pc' = "findClusterInstances"
            /\ UNCHANGED ret
       ELSE Finish("delete cluster not implemented yet", NoVal)
    /\ UNCHANGED <<world, op, loc, calls, history, budget, runs>>

\* whether the create command installs Flux itself
InstallsFluxMut(clusterType) == TRUE
InstallsFlux(clusterType) == clusterType # "single-node"

\* cluster.go lines 56-70: what the create command does with the result of
\* CreateCluster
createCmd_Created ==
    /\ pc = "done"
    /\ loc.cmd = "create"
    /\ IF ret.err # ""
       THEN /\ Return(Wrap("failed to create cluster", ret.err))
            /\ UNCHANGED loc
       ELSE IF InstallsFlux(op.type)
       THEN /\ pc' = "InstallFlux"
            /\ loc' = [loc EXCEPT !.k = 1]
            /\ UNCHANGED ret
       ELSE /\ Return("")
            /\ UNCHANGED loc
    /\ UNCHANGED <<world, op, calls, history, budget, runs>>

\* flux.go lines 8-33 with cluster.go lines 71-78: one command of the list
\* is run; its failure ends InstallFlux and the create command
InstallFlux ==
    /\ pc = "InstallFlux"
    /\ \E e \in {"", "exit status 1"} :
         /\ Log("exec", 0, 0, commands[loc.k], e)
         /\ IF e # ""
            THEN /\ Return(Wrap("failed to install Flux", e))
                 /\ UNCHANGED loc
            ELSE IF loc.k < Len(commands)
            THEN /\ loc' = [loc EXCEPT !.k = @ + 1]
                 /\ UNCHANGED <<pc, ret>>
            ELSE /\ Return("")
                 /\ UNCHANGED loc
    /\ UNCHANGED <<world, op, history, budget, runs>>

\* cluster.go lines 132-138
teardownCmd_Deleted ==
    /\ pc = "done"
    /\ loc.cmd = "teardown"
    /\ Return(IF ret.err # "" THEN Wrap("failed to teardown cluster", ret.err)
              ELSE "")
    /\ UNCHANGED <<world, op, loc, calls, history, budget, runs>>

\* RunE has returned and the process exits
RunE_Return ==
    /\ pc = "return"
    /\ pc' = "idle"
    /\ history' = Append(history, [fn |-> op.fn, name |-> op.name, type |-> op.type,
                                   err |-> ret.err, val |-> ret.val, iam |-> iam,
                                   vpc |-> loc.vpc])
    /\ calls' = <<>>
    /\ ret' = NoRet
    /\ loc' = LocInit
    /\ UNCHANGED <<world, op, budget, runs>>

\* the two commands run one after another, without provider faults
InitCommand == InitWith({}, 0, MaxRuns)
NextCommand ==
    \/ \E cloudProvider \in {"", "aws", "azure", "gcp"},
          clusterType \in {"eks", "single-node", "aks"} :
         createCmd_RunE("a", cloudProvider, clusterType)
    \/ \E cloudProvider \in {"", "aws", "azure", "gcp"}, force \in BOOLEAN :
         teardownCmd_RunE("a", cloudProvider, force)
    \/ NewAWSManager
    \/ NewAzureManager
    \/ createCmd_CreateCluster
    \/ createEKSCluster
    \/ createSingleNodeCluster
    \/ createCmd_Created
    \/ InstallFlux
    \/ teardownCmd_DeleteCluster
    \/ deleteCluster
    \/ teardownCmd_Deleted
    \/ RunE_Return
    \/ ProviderConverges
    \/ UserLaunchesNode
SpecCommand == InitCommand /\ [][NextCommand]_vars

\* the two commands, with provider faults in the teardown
InitTeardownCommand == InitWith({"DeleteCluster"}, MaxFaults, MaxRuns)
SpecTeardownCommand == InitTeardownCommand /\ [][NextCommand]_vars

\* ------------------------------------------- the choice of the image
\* aws.go lines 933-1002 on their own: the list DescribeImages returned and
\* the image chosen from it.  An image is its identifier (its place in the
\* list), whether its name contains "minimal", and its creation date, 0
\* when the provider gave none; dates are RFC 3339 strings of one format,
\* which compare as the numbers here do.
NoImage == [id |-> 0, minimal |-> FALSE, date |-> 0]
ImageLists ==
    UNION {[1..n -> [minimal : BOOLEAN, date : 0..2]] : n \in 0..MaxImages}
ImageAt(list, n) == [id |-> n, minimal |-> list[n].minimal, date |-> list[n].date]

\* lines 968-969 and 974-975: the image replaces the one kept so far
Newer(image, latest) ==
    \/ latest = NoImage
    \/ image.date # 0 /\ latest.date # 0 /\ image.date > latest.date

\* lines 960-979: the loop over the first n images; latestAMI and
\* latestMinimalAMI after it
RECURSIVE ScanImages(_, _)
ScanImages(list, n) ==
    IF n = 0 THEN [latestAMI |-> NoImage, latestMinimalAMI |-> NoImage]
    ELSE LET kept == ScanImages(list, n - 1)
             image == ImageAt(list, n)
         IN  IF ~image.minimal
             THEN IF Newer(image, kept.latestAMI)
                  THEN [kept EXCEPT !.latestAMI = image] ELSE kept
             ELSE IF Newer(image, kept.latestMinimalAMI)
                  THEN [kept EXCEPT !.latestMinimalAMI = image] ELSE kept

\* lines 982-987: the non-minimal image if there is one, else the minimal
LatestImage(list) ==
    LET kept == ScanImages(list, Len(list))
    IN  IF kept.latestAMI = NoImage THEN kept.latestMinimalAMI
        ELSE kept.latestAMI

\* lines 935-952: DescribeImages has answered with a list
getLatestAmazonLinuxAMI_DescribeImages(list) ==
    /\ pc = "idle"
    /\ runs > 0
    /\ runs' = runs - 1
    /\ op' = [fn |-> "getLatestAmazonLinuxAMI", name |-> "", type |-> ""]
    /\ loc' = [LocInit EXCEPT !.images = list]
    /\ pc' = "selectImage"
    /\ UNCHANGED <<world, calls, ret, history, budget>>

\* lines 956-1001: the empty list is an error, otherwise the image chosen
\* from the list is returned
getLatestAmazonLinuxAMI_Select ==
    /\ pc = "selectImage"
    /\ IF Len(loc.images) = 0
       THEN Finish("no Amazon Linux 2023 AMIs found", NoVal)
       ELSE Finish("", Val("", LatestImage(loc.images).id, ""))
    /\ UNCHANGED <<world, op, loc, calls, history, budget, runs>>

InitImages == InitWith({}, 0, MaxRuns)
NextImages ==
    \/ \E list \in ImageLists : getLatestAmazonLinuxAMI_DescribeImages(list)
    \/ getLatestAmazonLinuxAMI_Select
    \/ Exit
SpecImages == InitImages /\ [][NextImages]_vars

\* ------------------------------------------------------------- properties
Teardown == op.fn = "DeleteCluster"
Creation == op.fn = "CreateCluster"
Idx == 1..Len(calls)
Succeeded == \A i \in Idx : calls[i].err = ""

\* the calls that terminate, detach or delete an EC2 resource
SubResourceRemovals ==
    {"DeleteVpcEndpoints", "DeleteNatGateway", "DetachInternetGateway",
     "DeleteInternetGateway", "DeleteRouteTable", "DeleteSecurityGroup",
     "DeleteSubnet"}
Removals == SubResourceRemovals \cup {"TerminateInstances", "DeleteVpc"}
\* the calls of deleteVPCResources
NetworkCalls ==
    SubResourceRemovals \cup
    {"DeleteVpc", "DescribeVpcEndpoints", "waitForVPCEndpointsDeletion",
     "DescribeNatGateways", "DescribeInternetGateways", "DescribeRouteTables",
     "DescribeSecurityGroups", "DescribeSubnets"}

\* C1: during DeleteCluster every call that terminates, detaches or deletes
\* an EC2 resource and goes through names a resource that carries the
\* ownership tag xstrapolate-managed=true; no resource without the tag is
\* removed.
C1_RemovesOnlyManaged ==
    Teardown =>
        \A i \in Idx :
            calls[i].op \in Removals /\ calls[i].err = "" => calls[i].managed

\* C1, a case of it: the teardown has deleted a NAT gateway that carries no
\* tag at all
C1_UntaggedNatGatewayDeleted ==
    /\ Teardown
    /\ \E i \in Idx :
         /\ calls[i].op = "DeleteNatGateway"
         /\ calls[i].err = ""
         /\ ~calls[i].managed

\* the ownership check at position i answered "managed"
OwnershipConfirmed(i) ==
    calls[i].op = "DescribeVpcs" /\ calls[i].err = "" /\ calls[i].managed

\* C2: every call of deleteVPCResources for a VPC comes after an ownership
\* check of that VPC that answered true; a VPC whose check failed or found
\* no ownership tag gets no such call, and DeleteCluster then goes through
\* the remaining VPCs and the IAM cleanup and returns no error.
C2_CleanupOnlyAfterOwnershipCheck ==
    Teardown =>
        /\ \A j \in Idx :
             calls[j].op \in NetworkCalls =>
                \E i \in 1..(j - 1) :
                    OwnershipConfirmed(i) /\ calls[i].vpc = calls[j].vpc
        /\ \A i \in Idx :
             calls[i].op = "DescribeVpcs" /\ ~OwnershipConfirmed(i) =>
                /\ \A j \in Idx :
                     calls[j].op \in NetworkCalls => calls[j].vpc # calls[i].vpc
                /\ pc = "done" =>
                     /\ ret.err = ""
                     /\ loc.vpcIds = {}
                     /\ \E j \in (i + 1)..Len(calls) :
                          calls[j].op = "RemoveRoleFromInstanceProfile"

\* C2, its case: a teardown that skipped a VPC without the tag, cleaned up
\* and deleted a managed one, and returned
C2_SkippedAndCleaned ==
    /\ Teardown
    /\ pc = "done"
    /\ \E i \in Idx :
         calls[i].op = "DescribeVpcs" /\ calls[i].err = "" /\ ~calls[i].managed
    /\ \E j \in Idx : calls[j].op = "DeleteVpc" /\ calls[j].err = ""

\* C3: in the teardown of one network every DeleteVpcEndpoints call comes
\* before every DeleteSubnet call, and DeleteVpc comes after every other
\* removal call against the network.
C3_EndpointsFirstVpcLast ==
    Teardown =>
        \A i \in Idx, j \in Idx :
            calls[i].vpc = calls[j].vpc =>
                /\ (calls[i].op = "DeleteVpcEndpoints" /\ calls[j].op = "DeleteSubnet")
                        => i < j
                /\ (calls[i].op \in SubResourceRemovals /\ calls[j].op = "DeleteVpc")
                        => i < j

\* C3, its case: endpoints, subnets and the VPC of one network were deleted
C3_NetworkRemoved ==
    /\ Teardown
    /\ \E i \in Idx, j \in Idx, k \in Idx :
         /\ calls[i].op = "DeleteVpcEndpoints" /\ calls[i].err = ""
         /\ calls[j].op = "DeleteSubnet" /\ calls[j].err = ""
         /\ calls[k].op = "DeleteVpc" /\ calls[k].err = ""
         /\ calls[i].vpc = calls[k].vpc
         /\ calls[j].vpc = calls[k].vpc

\* the class of a teardown call in the teardown state machine
Class(c) ==
    IF c.op = "DescribeInstances" /\ c.id = 0 THEN 0
    ELSE IF c.op \in {"TerminateInstances", "DescribeInstances"} THEN 1
    ELSE IF c.op = "InstanceTerminatedWaiter" THEN 2
    ELSE IF c.op \in NetworkCalls \cup {"DescribeVpcs"} THEN 3
    ELSE 4
\* the position of a network call in the order of the network steps
NetStep(c) ==
    IF c.op = "DescribeVpcs" THEN 0
    ELSE IF c.op \in {"DescribeVpcEndpoints", "DeleteVpcEndpoints"} THEN 1
    ELSE IF c.op = "waitForVPCEndpointsDeletion" THEN 2
    ELSE IF c.op \in {"DescribeNatGateways", "DeleteNatGateway"} THEN 3
    ELSE IF c.op \in {"DescribeInternetGateways", "DetachInternetGateway",
                      "DeleteInternetGateway"} THEN 4
    ELSE IF c.op \in {"DescribeRouteTables", "DeleteRouteTable"} THEN 5
    ELSE IF c.op \in {"DescribeSecurityGroups", "DeleteSecurityGroup"} THEN 6
    ELSE IF c.op \in {"DescribeSubnets", "DeleteSubnet"} THEN 7
    ELSE 8

\* C4: the calls of a DeleteCluster run follow the teardown state machine:
\* discovery, the terminations, the termination waits (one for every
\* instance, before any network step), then one network after the other,
\* each begun by its ownership check and never returned to, with its steps
\* in the order endpoints, endpoint wait, NAT gateways,
\* internet gateways (each detached, then deleted), route tables, security
\* groups, subnets, VPC, and the IAM removals after the last network step.
C4_TeardownOrder ==
    Teardown =>
        /\ \A i \in 1..(Len(calls) - 1) :
             /\ Class(calls[i]) <= Class(calls[i + 1])
             /\ (Class(calls[i]) = 3 /\ Class(calls[i + 1]) = 3) =>
                    IF calls[i].vpc = calls[i + 1].vpc
                    THEN NetStep(calls[i]) <= NetStep(calls[i + 1])
                    ELSE /\ calls[i + 1].op = "DescribeVpcs"
                         /\ \A j \in (i + 1)..Len(calls) :
                              calls[j].vpc # calls[i].vpc
        /\ \A j \in Idx :
             calls[j].op = "DeleteInternetGateway" =>
                /\ j > 1
                /\ calls[j - 1].op = "DetachInternetGateway"
                /\ calls[j - 1].id = calls[j].id
        /\ \A i \in Idx :
             (calls[i].op = "TerminateInstances"
              /\ \E j \in Idx : Class(calls[j]) >= 3)
                => \E k \in Idx : /\ calls[k].op = "InstanceTerminatedWaiter"
                                  /\ calls[k].id = calls[i].id

\* C4, its case: a run that went through every class, from a termination
\* over the deletion of an internet gateway and of the VPC to the removal
\* of the IAM role
C4_AllClassesRun ==
    /\ Teardown
    /\ pc = "done"
    /\ \E i \in Idx : calls[i].op = "TerminateInstances"
    /\ \E i \in Idx : calls[i].op = "DeleteInternetGateway" /\ calls[i].err = ""
    /\ \E i \in Idx : calls[i].op = "DeleteVpc"
    /\ \E i \in Idx : calls[i].op = "DeleteRole" /\ calls[i].err = ""

\* C5: once CreateCluster has made a network for a cluster and a
\* DeleteCluster for that cluster has run with every provider call
\* succeeding, no resource of that network with the ownership tag is left.
C5_RoundTrip ==
    (Teardown /\ pc = "done" /\ Succeeded) =>
        \A n \in 1..Len(history) :
            (history[n].fn = "CreateCluster" /\ history[n].name = op.name
             /\ history[n].err = "")
                => \A r \in res : r.managed => r.vpc # history[n].vpc

\* the networks that hold an instance of the cluster, and what is left of
\* them
ClusterVpcs(name) ==
    {r.vpc : r \in {q \in res : q.kind = "instance" /\ q.cluster = name}}
RemainingManaged(name) ==
    {r \in res : r.managed /\ r.vpc \in ClusterVpcs(name)}
\* this DeleteCluster follows an interrupted DeleteCluster for the same name
Rerun ==
    /\ Teardown
    /\ Len(history) > 0
    /\ history[Len(history)].fn = "DeleteCluster"
    /\ history[Len(history)].name = op.name
    /\ history[Len(history)].err = "interrupted"

\* C6: a DeleteCluster that follows an interrupted one for the same cluster
\* and whose provider calls succeed finds the networks that still hold
\* managed resources of the cluster before it starts on the networks, and
\* has left no managed resource of the cluster when it returns.
C6_Rerunnable ==
    (Rerun /\ Succeeded) =>
        /\ (pc = "isXstrapolateManagedVPC"
            /\ \A i \in Idx : calls[i].op # "DescribeVpcs")
                => {r.vpc : r \in RemainingManaged(op.name)} \subseteq loc.vpcIds
        /\ pc = "done" => RemainingManaged(op.name) = {}

\* C7: a DeleteCluster that has returned has attempted its steps up to the
\* last one, the removal of the EKS role, whichever step failed before.
C7_SweepIsTotal ==
    (Teardown /\ pc = "done") =>
        \E i \in Idx : calls[i].op = "GetRole"

Launches == {i \in Idx : calls[i].op = "RunInstances"}
\* the instances in the network this invocation made
Launched == {r \in res : r.kind = "instance" /\ r.vpc = loc.vpc}

\* C8: one createEC2Instance makes at most one instance: no RunInstances
\* call follows a successful one, and when the creation returns without
\* error exactly one instance exists in its network, the one it returns.
C8_AtMostOneInstance ==
    Creation =>
        /\ \A i \in Launches, j \in Launches : i < j => calls[i].err # ""
        /\ Cardinality(Launched) <= 1
        /\ (pc = "done" /\ ret.err = "" /\ op.type = "single-node")
                => Launched = {r \in res : r.id = ret.val.id}
                   /\ Cardinality(Launched) = 1

\* C8, its case: two launches failed on the instance profile, the third
\* went through, and the creation returned
C8_ThirdLaunchSucceeds ==
    /\ Creation
    /\ pc = "done"
    /\ ret.err = ""
    /\ \E i \in Idx :
         /\ i + 2 = Len(calls)
         /\ calls[i].op = "RunInstances" /\ calls[i].err = "InvalidProfile"
         /\ calls[i + 1].op = "RunInstances" /\ calls[i + 1].err = "InvalidProfile"
         /\ calls[i + 2].op = "RunInstances" /\ calls[i + 2].err = ""
         /\ Cardinality(Launches) = 3

\* C9: a launch is tried again only after a failure with the instance
\* profile signature and only while fewer than maxRetries launches were
\* made; a failure with another signature, or the failure of the last
\* allowed launch, ends the creation with that error and without an
\* instance.
C9_RetryOnlyOnProfileError ==
    Creation =>
        /\ \A i \in Launches, j \in Launches :
             i < j => calls[i].err \in {"", "InvalidProfile"}
        /\ Cardinality(Launches) <= maxRetries
        /\ \A i \in Launches :
             (/\ i = Len(calls)
              /\ calls[i].err # ""
              /\ \/ calls[i].err # "InvalidProfile"
                 \/ Cardinality(Launches) = maxRetries)
                => /\ pc = "done"
                   /\ ret.err = calls[i].err
                   /\ Launched = {}

\* C9, its case: the last allowed launch failed on the instance profile like
\* the ones before it
C9_RetriesExhausted ==
    /\ Creation
    /\ pc = "done"
    /\ Cardinality(Launches) = maxRetries
    /\ \A i \in Launches : calls[i].err = "InvalidProfile"
    /\ ret.err = "InvalidProfile"

IdentityFunctions == {"ensureSSMInstanceProfile", "ensureEKSServiceRole"}
\* no provider fault was injected into an identity function so far
Unfaulted == \A f \in IdentityFunctions : budget[f] = MaxFaults

ComputeCalls == {"eks:CreateCluster", "RunInstances"}

\* C11: after a CreateRole call that failed otherwise than by "already
\* exists" the creation issues no compute call and returns an error.
C11_RoleFailureIsFatal ==
    Creation =>
        \A i \in Idx :
            (calls[i].op = "CreateRole"
             /\ calls[i].err \notin {"", "EntityAlreadyExists"})
                => /\ \A j \in Idx : calls[j].op \notin ComputeCalls
                   /\ pc = "done" => ret.err # ""

\* the running invocation takes a step (the provider and the account owner
\* act in between)
ProgramStep == <<pc, loc, calls, ret>>' # <<pc, loc, calls, ret>>

\* C12: both readiness waits are bounded and end in a timeout value.  A
\* poll that leaves waitForInstanceProfile waiting counts one up, the count
\* never passes maxAttempts, and at maxAttempts the wait returns "timeout",
\* with which the creation returns.  A tick that leaves
\* waitForVPCEndpointsDeletion waiting counts one up, the count never
\* passes maxEndpointTicks, and at the deadline the wait hands "timeout" to
\* deleteVPCResources, which goes on with its next step.
C12_WaitsEndInTimeout ==
    [][ProgramStep =>
        /\ pc = "waitForInstanceProfile" =>
              /\ loc.polls <= maxAttempts
              /\ pc' = pc => loc'.polls = loc.polls + 1
              /\ loc.polls = maxAttempts =>
                    /\ pc' = "done"
                    /\ ret'.err = "timeout"
                    /\ calls'[Len(calls')].op = "waitForInstanceProfile"
                    /\ calls'[Len(calls')].err = "timeout"
        /\ pc = "waitForVPCEndpointsDeletion" =>
              /\ loc.polls <= maxEndpointTicks
              /\ pc' = pc => loc'.polls = loc.polls + 1
              /\ loc.polls = maxEndpointTicks =>
                    /\ pc' = After("deleteVPCEndpoints")
                    /\ calls'[Len(calls')].op = "waitForVPCEndpointsDeletion"
                    /\ calls'[Len(calls')].err = "timeout"]_vars

\* C12, its case: the instance profile never became visible and the
\* creation returned the timeout after the last poll
C12_ProfileWaitTimedOut ==
    /\ Creation
    /\ pc = "done"
    /\ ret.err = "timeout"
    /\ loc.polls = maxAttempts
    /\ calls[Len(calls)].op = "waitForInstanceProfile"

\* the provider answered the read of this step with a fault
FaultRead == budget' # budget

\* C13: a poll whose read fails with an error that is not the not-found
\* signature ends the wait in that step: waitForInstanceProfile returns
\* the error and the creation returns with it, waitForVPCEndpointsDeletion
\* hands the error to deleteVPCResources; neither makes another poll.
C13_PermanentErrorEndsWait ==
    [][FaultRead =>
        /\ pc = "waitForInstanceProfile" =>
              /\ pc' = "done"
              /\ ret'.err = Injected
              /\ loc'.polls = loc.polls
              /\ calls' = Append(calls, Call("waitForInstanceProfile", 0, 0,
                                             ssmProfileName, Injected))
        /\ pc = "waitForVPCEndpointsDeletion" =>
              /\ pc' = After("deleteVPCEndpoints")
              /\ calls' = Append(calls, Call("waitForVPCEndpointsDeletion", 0,
                                             loc.vpc, "", Injected))]_vars

\* C13, its case: after polls that found the profile not yet there, a poll
\* failed with a provider fault and the creation returned it
C13_FaultAfterPolls ==
    /\ Creation
    /\ pc = "done"
    /\ ret.err = Injected
    /\ loc.polls > 0
    /\ calls[Len(calls)].op = "waitForInstanceProfile"

\* the calls with which createEC2Instance makes the network and the instance
SingleNodeCreateCalls ==
    {"CreateVpc", "ModifyVpcAttribute/EnableDnsSupport",
     "ModifyVpcAttribute/EnableDnsHostnames", "DescribeAvailabilityZones",
     "CreateSubnet", "CreateSecurityGroup", "AuthorizeSecurityGroupIngress",
     "CreateVpcEndpoint", "DescribeImages", "RunInstances"}
ProfileWaits == {i \in Idx : calls[i].op = "waitForInstanceProfile"}

\* C14: in a single-node creation every call that makes the network or
\* launches the instance comes after a waitForInstanceProfile that returned
\* success; the wait returns success only when its read showed a role bound
\* to the profile; when the wait returns an error it is the last call and
\* the creation returns that error.
C14_LaunchOnlyAfterProfileReady ==
    (Creation /\ op.type = "single-node") =>
        /\ \A j \in Idx :
             calls[j].op \in SingleNodeCreateCalls =>
                \E i \in ProfileWaits : i < j /\ calls[i].err = ""
        /\ \A i \in ProfileWaits :
             IF calls[i].err = ""
             THEN loc.roles # {} /\ loc.roles \subseteq BoundRoles(ssmProfileName)
             ELSE /\ i = Len(calls)
                  /\ pc = "done"
                  /\ ret.err = calls[i].err
                  /\ ret.val = NoVal

\* C14, its case: the wait saw the bound role and returned success, and the
\* instance was launched
C14_LaunchedAfterWait ==
    /\ Creation
    /\ op.type = "single-node"
    /\ pc = "done"
    /\ ret.err = ""
    /\ \E i \in ProfileWaits : calls[i].err = ""
    /\ calls[Len(calls)].op = "RunInstances"

\* C15: a poll that sees the profile without a bound role does not end the
\* wait: waitForInstanceProfile returns only with success, with the timeout
\* after its last poll, or with a provider error.
C15_NoRoleYetKeepsPolling ==
    Creation =>
        \A i \in ProfileWaits : calls[i].err \in {"", "timeout", Injected}

\* the calls that make a network resource, on either path
NetworkCreateCalls ==
    {"CreateVpc", "CreateSubnet", "CreateInternetGateway",
     "AttachInternetGateway", "CreateRouteTable", "CreateRoute",
     "AssociateRouteTable", "CreateSecurityGroup",
     "AuthorizeSecurityGroupIngress", "CreateVpcEndpoint"}
\* the calls that make an identity resource
IdentityCreateCalls ==
    {"CreateRole", "AttachRolePolicy", "CreateInstanceProfile",
     "AddRoleToInstanceProfile"}

\* C16: in a creation every network-creation call comes before every
\* identity-creation call, and every identity-creation call before the
\* compute call.
C16_NetworkIdentityCompute ==
    Creation =>
        \A i \in Idx, j \in Idx :
            /\ (calls[i].op \in NetworkCreateCalls
                /\ calls[j].op \in IdentityCreateCalls) => i < j
            /\ (calls[i].op \in IdentityCreateCalls
                /\ calls[j].op \in ComputeCalls) => i < j

\* the call failed, and not by an answer that says the resource is already
\* there or by the launch failure that createEC2Instance tries again
FailedStep(c) ==
    c.err \notin {"", "EntityAlreadyExists", "LimitExceeded", "InvalidProfile"}

\* C17: a creation whose step failed issues no further call and has
\* returned the error of that step, without a cluster descriptor.
C17_FirstFailureAborts ==
    Creation =>
        \A i \in Idx :
            FailedStep(calls[i]) =>
                /\ i = Len(calls)
                /\ pc = "done"
                /\ ret.err = calls[i].err
                /\ ret.val = NoVal

\* C17, a case of it: a single-node creation returned its descriptor
\* although the creation of an endpoint had failed
C17_EndpointFailureSwallowed ==
    /\ Creation
    /\ pc = "done"
    /\ ret.err = ""
    /\ ret.val # NoVal
    /\ \E i \in Idx : calls[i].op = "CreateVpcEndpoint" /\ calls[i].err = Injected

\* the calls that remove an identity resource
IdentityRemovals ==
    {"RemoveRoleFromInstanceProfile", "DeleteInstanceProfile",
     "DetachRolePolicy", "DeleteRole"}

\* C18: no step of a creation removes anything: its call log holds no
\* terminate, detach, delete or remove call, every resource, role, policy
\* attachment, profile, binding and cluster that was there before a step is
\* there after it, and the step in which the creation fails leaves the
\* account as it found it.
C18_CreationRemovesNothing ==
    [][Creation' =>
        /\ \A i \in 1..Len(calls') :
             calls'[i].op \notin Removals \cup IdentityRemovals
        /\ {r.id : r \in res} \subseteq {r.id : r \in res'}
        /\ iam.roles \subseteq iam'.roles
        /\ iam.attached \subseteq iam'.attached
        /\ iam.profiles \subseteq iam'.profiles
        /\ iam.bound \subseteq iam'.bound
        /\ eksClusters \subseteq eksClusters'
        /\ (pc # "done" /\ pc' = "done" /\ ret'.err # "") =>
              /\ res' = res
              /\ iam' = iam
              /\ eksClusters' = eksClusters]_vars

\* C18, its case: a single-node creation failed at the launch and the
\* network it had made, endpoints included, is still there
C18_FailedWithNetworkLeft ==
    /\ Creation
    /\ pc = "done"
    /\ ret.err # ""
    /\ calls[Len(calls)].op = "RunInstances"
    /\ \E r \in res : r.kind = "vpc" /\ r.id = loc.vpc
    /\ \E r \in res : r.kind = "vpce" /\ r.vpc = loc.vpc

\* C19: every resource the tool has created carries the ownership tag
\* xstrapolate-managed=true and the kind tag xstrapolate-resource-type.
C19_CreatedResourcesTagged ==
    \A r \in res : r.owner = "tool" => r.managed /\ r.rtype

ZoneCheckPassed ==
    \E i \in Idx : calls[i].op = "DescribeAvailabilityZones" /\ calls[i].err = ""

\* C20: with one zone in the region, an EKS creation that has asked for the
\* zones has returned the error "need at least 2 availability zones" and
\* has made no network resource; a single-node creation that returned
\* without error has made exactly one private subnet.
C20_OneZone ==
    (Creation /\ zones = 1 /\ ZoneCheckPassed) =>
        IF op.type = "eks"
        THEN /\ pc = "done"
             /\ ret.err = "need at least 2 availability zones"
             /\ \A i \in Idx :
                  calls[i].op \in NetworkCreateCalls => calls[i].err # ""
             /\ \A r \in res : r.vpc # loc.vpc
        ELSE (pc = "done" /\ ret.err = "") =>
                /\ Len(loc.priv) = 1
                /\ Cardinality({r \in OfKind("subnet", loc.vpc) :
                                    r.sub = "private"}) = 1

\* the calls of the running invocation that create, describe or delete
\* cloud resources: all but the credential validation and the commands
\* InstallFlux runs
ResourceOperations ==
    {i \in 1..Len(calls) : calls[i].op \notin {"sts:GetCallerIdentity", "exec"}}
Validations(e) ==
    {i \in 1..Len(calls) : /\ calls[i].op = "sts:GetCallerIdentity"
                           /\ (calls[i].err = "") = (e = "")}

\* C21: whatever provider the command was given, every create, describe or
\* delete operation of an invocation comes after a credential validation
\* that succeeded in the same invocation; after a validation that failed
\* the command returns an error and has performed no resource operation.
C21_ValidationFirst ==
    /\ \A i \in ResourceOperations : \E j \in Validations("") : j < i
    /\ Validations("failed") # {} =>
         /\ pc = "return"
         /\ ret.err # ""
         /\ ResourceOperations = {}

\* a command on aws has validated the credentials and then called the
\* provider for resources
C21_OperatedAfterValidation ==
    /\ loc.cloud = "aws"
    /\ Validations("") = {1}
    /\ ResourceOperations # {}

\* C22: a teardown command without --force has returned an error, has
\* constructed no manager and has made no provider call; the manager's
\* construction and DeleteCluster are reached only with force set.
C22_TeardownNeedsForce ==
    loc.cmd = "teardown" =>
      /\ ~loc.force => /\ pc = "return"
                       /\ ret.err # ""
                       /\ calls = <<>>
      /\ pc # "return" => loc.force

\* a teardown on aws without --force was cancelled
C22_Cancelled ==
    /\ loc.cmd = "teardown"
    /\ loc.cloud = "aws"
    /\ ~loc.force
    /\ pc = "return"
    /\ ret.err = "teardown cancelled - use --force to confirm"

\* the finished invocations that created a managed cluster of that name
CreatedManaged(name) ==
    {j \in 1..Len(history) : /\ history[j].fn = "CreateCluster"
                             /\ history[j].type = "eks"
                             /\ history[j].name = name
                             /\ history[j].err = ""}

\* C23: once a teardown of a cluster that was created with type eks has
\* returned without error, the managed EKS cluster of that name no longer
\* exists.
C23_ManagedClusterRemoved ==
    /\ pc = "done"
    /\ Teardown
    /\ ret.err = ""
    /\ CreatedManaged(op.name) # {}
    => op.name \notin eksClusters

\* a teardown of a cluster created with type eks returned without error
\* and all its calls succeeded
C23_TornDownManaged ==
    /\ pc = "done"
    /\ Teardown
    /\ ret.err = ""
    /\ Succeeded
    /\ CreatedManaged(op.name) # {}

\* the commands InstallFlux has run in this invocation, in their order
Execs == SelectSeq(calls, LAMBDA c : c.op = "exec")

\* C24: InstallFlux runs only in a create command whose CreateCluster
\* returned a descriptor without error and whose type is not single-node,
\* after every provider call of the creation; it runs flux check --pre and
\* then flux install, a failed command is the last one run and makes the
\* create command return an error, and a create command of such a type
\* that returns no error has run both.
C24_FluxAfterCreate ==
    /\ Execs # <<>> =>
         /\ loc.cmd = "create"
         /\ op.type # "single-node"
         /\ ret.val # NoVal
         /\ \A i, j \in Idx :
              calls[i].op = "exec" /\ calls[j].op # "exec" => j < i
    /\ Len(Execs) <= Len(commands)
    /\ \A n \in 1..Len(Execs) :
         /\ Execs[n].name = commands[n]
         /\ Execs[n].err # "" => /\ n = Len(Execs)
                                 /\ pc = "return"
                                 /\ ret.err # ""
    /\ pc = "return" /\ loc.cmd = "create" /\ ret.err = ""
         /\ op.type # "single-node"
       => Len(Execs) = Len(commands)

\* flux check --pre passed, flux install failed, and the create command of
\* a managed cluster on aws returns the error
C24_InstallFailed ==
    /\ loc.cloud = "aws"
    /\ pc = "return"
    /\ Len(Execs) = 2
    /\ Execs[1].err = ""
    /\ Execs[2].err # ""
    /\ ret.err # ""

\* C25: CreateCluster returns a descriptor exactly when it returns no
\* error; the descriptor's status is active for a managed cluster, whose
\* last call is then the active wait that succeeded, and provisioning for
\* a single-node deployment, whose endpoint is then the identifier of the
\* one instance this invocation launched; there is no other status.
C25_DescriptorStatus ==
    (Creation /\ pc = "done") =>
      /\ (ret.val = NoVal) = (ret.err # "")
      /\ ret.err = "" =>
           /\ ret.val.name = op.name
           /\ ret.val.status \in {"active", "provisioning"}
           /\ ret.val.status = "active" =>
                /\ op.type = "eks"
                /\ op.name \in eksClusters
                /\ calls[Len(calls)].op = "ClusterActiveWaiter"
                /\ calls[Len(calls)].err = ""
           /\ ret.val.status = "provisioning" =>
                /\ op.type = "single-node"
                /\ \E i \in Launches :
                     /\ calls[i].err = ""
                     /\ calls[i].id = ret.val.id
                     /\ \A j \in Launches \ {i} : calls[j].err # ""
                /\ \E r \in res : /\ r.id = ret.val.id
                                  /\ r.kind = "instance"
                                  /\ r.cluster = op.name

\* both kinds of descriptor have been returned, one after the other
C25_BothReturned ==
    /\ Creation
    /\ pc = "done"
    /\ ret.val.status = "provisioning"
    /\ \E j \in 1..Len(history) : history[j].val.status = "active"

\* the networks made by single-node creations: the running one's and those
\* of the finished ones
SingleNodeVpcs ==
    ((IF Creation /\ op.type = "single-node" THEN {loc.vpc} ELSE {})
       \cup {history[j].vpc : j \in {k \in 1..Len(history) :
                                       /\ history[k].fn = "CreateCluster"
                                       /\ history[k].type = "single-node"}})
      \ {0}

\* C26: in every state of a single-node creation and after it, the network
\* it made holds no internet gateway, no route table with a default route
\* and no subnet that is public (by its Type tag, by assigning public
\* addresses or by a route table association), the creation has made no
\* gateway or route call, and every instance in the network sits in one of
\* the network's private subnets.
C26_PrivateNetworkOnly ==
    /\ \A v \in SingleNodeVpcs :
         /\ OfKind("igw", v) = {}
         /\ \A r \in OfKind("rtb", v) : r.ref = 0
         /\ \A r \in OfKind("subnet", v) :
              /\ r.sub = "private"
              /\ "MapPublicIpOnLaunch" \notin r.attrs
              /\ \A t \in OfKind("rtb", v) : r.id \notin t.assoc
         /\ \A r \in OfKind("instance", v) :
              \E n \in OfKind("subnet", v) : n.id = r.ref /\ n.sub = "private"
    /\ (Creation /\ op.type = "single-node") =>
         \A i \in Idx : calls[i].op \notin
            {"CreateInternetGateway", "AttachInternetGateway",
             "CreateRouteTable", "CreateRoute", "AssociateRouteTable",
             "ModifySubnetAttribute"}

\* a single-node creation has launched its instance in a private subnet
\* of the network it made
C26_LaunchedInPrivateSubnet ==
    /\ Creation
    /\ op.type = "single-node"
    /\ pc = "done"
    /\ ret.err = ""
    /\ \E r \in OfKind("instance", loc.vpc), n \in OfKind("subnet", loc.vpc) :
         r.id = ret.val.id /\ r.ref = n.id /\ n.sub = "private"

\* the delete calls of deleteSecurityGroups and deleteSubnets
RetriedDeletes == {"DeleteSecurityGroup", "DeleteSubnet"}
Attempts(o, id) == {i \in Idx : calls[i].op = o /\ calls[i].id = id}
\* the networks whose listing by that Describe call succeeded
Listed(describe) ==
    {calls[i].vpc : i \in {j \in Idx : calls[j].op = describe /\ calls[j].err = ""}}

\* C27: teardown calls the delete of one security group or subnet at most
\* three times, one call directly after the other, and each further call
\* follows a call that failed with DependencyViolation; whatever the
\* calls answered, the loop goes on: once the teardown has returned, every
\* security group and subnet the helpers had listed and that is still
\* there has had its delete call, each delete call is followed by a later
\* call, and the teardown returns no error.
C27_BoundedDeleteRetries ==
    Teardown =>
      /\ \A o \in RetriedDeletes, i \in Idx :
           calls[i].op = o =>
             /\ Cardinality(Attempts(o, calls[i].id)) <= 3
             /\ \A j \in Attempts(o, calls[i].id) :
                  i < j => /\ calls[i].err = "DependencyViolation"
                           /\ \A n \in i..j : n \in Attempts(o, calls[i].id)
      /\ pc = "done" =>
           /\ \A i \in Idx : calls[i].op \in RetriedDeletes => i < Len(calls)
           /\ \A v \in Listed("DescribeSecurityGroups") :
                \A r \in {q \in res : SecurityGroupFilter(q, v)} :
                  Attempts("DeleteSecurityGroup", r.id) # {}
           /\ \A v \in Listed("DescribeSubnets") :
                \A r \in {q \in res : SubnetFilter(q, v)} :
                  Attempts("DeleteSubnet", r.id) # {}
           /\ (calls[1].err = "" => ret.err = "")

\* three delete calls for one subnet failed with DependencyViolation, the
\* loop went on to the next subnet, and the teardown returned no error
C27_ThreeAttemptsThenNext ==
    /\ Teardown
    /\ pc = "done"
    /\ ret.err = ""
    /\ \E i \in Idx :
         /\ i + 3 \in Idx
         /\ \A n \in i..(i + 3) : calls[n].op = "DeleteSubnet"
         /\ \A n \in i..(i + 2) : /\ calls[n].id = calls[i].id
                                  /\ calls[n].err = "DependencyViolation"
         /\ calls[i + 3].id # calls[i].id

\* the network has endpoints, or had some this teardown asked to delete
HasEndpoints(v) ==
    \/ \E r \in res : EndpointFilter(r, v)
    \/ \E j \in Idx : calls[j].op = "DeleteVpcEndpoints" /\ calls[j].vpc = v

\* C28: a teardown issues no DeleteSubnet call for a network that has
\* endpoints before the wait for the endpoints' deletion has returned for
\* that network, also when the listing of the endpoints or the delete of
\* one endpoint failed.
C28_SubnetsAfterEndpointWait ==
    Teardown =>
      \A i \in Idx :
        calls[i].op = "DeleteSubnet" /\ HasEndpoints(calls[i].vpc) =>
          \E j \in 1..(i - 1) : /\ calls[j].op = "waitForVPCEndpointsDeletion"
                                /\ calls[j].vpc = calls[i].vpc

\* the delete of one endpoint failed, the wait ran all the same, and the
\* subnets were deleted after it
C28_WaitedAfterFailedDelete ==
    /\ Teardown
    /\ \E i, j, n \in Idx :
         /\ i < j /\ j < n
         /\ calls[i].op = "DeleteVpcEndpoints" /\ calls[i].err # ""
         /\ calls[j].op = "waitForVPCEndpointsDeletion"
         /\ calls[n].op = "DeleteSubnet"
         /\ calls[n].vpc = calls[i].vpc

\* C29: in every creation, the call after a successful CreateVpc enables
\* DNS resolution, the call after that enables DNS hostnames, and the
\* creation goes on past either call only when it succeeded: a failure is
\* the creation's last call and its error.
C29_DnsEnabledFirst ==
    Creation =>
      \A i \in Idx :
        calls[i].op = "CreateVpc" /\ calls[i].err = "" =>
          /\ i + 1 \in Idx =>
               /\ calls[i + 1].op = "ModifyVpcAttribute/EnableDnsSupport"
               /\ calls[i + 1].err # "" => i + 1 = Len(calls)
          /\ i + 2 \in Idx =>
               /\ calls[i + 2].op = "ModifyVpcAttribute/EnableDnsHostnames"
               /\ calls[i + 2].err # "" => i + 2 = Len(calls)
          /\ \A n \in (i + 1)..(i + 2) :
               (n \in Idx /\ calls[n].err # "" /\ pc = "done") => ret.err # ""

\* createSSMVPCEndpoints has returned nil in the running creation: its
\* security group was created and its loop over the endpoints is done
EndpointsReturned ==
    /\ Creation
    /\ op.type = "single-node"
    /\ loc.sg # 0
    /\ pc \notin {"ssmep_AuthorizeSecurityGroupIngress", "ssmep_CreateVpcEndpoint"}

\* C30: once createSSMVPCEndpoints has returned without error, the network
\* holds exactly one endpoint for each of the three services, each attached
\* to the security group the function created, and that group's only
\* ingress rule is TCP 443 from the network's range.
C30_EndpointsComplete ==
    EndpointsReturned =>
      /\ \A n \in 1..Len(endpoints) :
           /\ Cardinality({r \in OfKind("vpce", loc.vpc) : r.sub = endpoints[n]}) = 1
           /\ \A r \in OfKind("vpce", loc.vpc) : r.ref = loc.sg
      /\ Get(loc.sg).attrs = {"tcp/443 from 10.0.0.0/16"}

\* createSSMVPCEndpoints returned after all its calls succeeded: three
\* endpoints behind the group with its one rule
C30_AllEndpointsCreated ==
    /\ EndpointsReturned
    /\ Succeeded
    /\ Cardinality(OfKind("vpce", loc.vpc)) = 3
    /\ Get(loc.sg).attrs = {"tcp/443 from 10.0.0.0/16"}

\* the calls that bind the SSM role to the instance profile
Binds == {i \in Idx : calls[i].op = "AddRoleToInstanceProfile"}

\* C31: when the call that binds the role to the instance profile succeeds
\* or fails with LimitExceeded or EntityAlreadyExists, ensureSSMInstanceProfile
\* returns no error and the profile has the role bound; when the call fails
\* otherwise, it is the last call and the function returns that error.
C31_BindOutcome ==
    op.fn = "ensureSSMInstanceProfile" =>
      \A i \in Binds :
        IF calls[i].err \in {"", "LimitExceeded", "EntityAlreadyExists"}
        THEN /\ pc = "done"
             /\ ret.err = ""
             /\ <<ssmProfileName, ssmRoleName>> \in iam.bound
        ELSE /\ pc = "done"
             /\ i = Len(calls)
             /\ ret.err = calls[i].err

\* after a first run that bound the role, the bind of a second run was
\* answered LimitExceeded and the function returned no error
C31_AlreadyBoundIsSuccess ==
    /\ op.fn = "ensureSSMInstanceProfile"
    /\ pc = "done"
    /\ ret.err = ""
    /\ \E i \in Binds : calls[i].err = "LimitExceeded"
    /\ Len(history) > 0
    /\ history[1].fn = "ensureSSMInstanceProfile"
    /\ history[1].err = ""

\* the finished creations of a cluster named otherwise than the cluster the
\* running teardown is for
OtherCreated ==
    {j \in 1..Len(history) : /\ history[j].fn = "CreateCluster"
                             /\ history[j].err = ""
                             /\ history[j].name # op.name}

\* C32: a teardown of one cluster, run after a cluster of another name was
\* created, leaves the other cluster's resources alone: the IAM roles,
\* policy attachments, profiles and bindings are those the other creation
\* left, and no call of the teardown terminates, detaches or deletes
\* anything in the other cluster's network.
C32_OtherClusterUntouched ==
    Teardown =>
      \A j \in OtherCreated :
        /\ iam = history[j].iam
        /\ \A i \in Idx :
             calls[i].op \in Removals => calls[i].vpc # history[j].vpc

\* a teardown of cluster b that made no call on the network of cluster a
\* has returned
C32_OtherTeardownReturned ==
    /\ Teardown
    /\ pc = "done"
    /\ op.name = "b"
    /\ OtherCreated # {}
    /\ \A i \in Idx : calls[i].op \notin Removals

\* the subnets the tool created
ToolSubnets == {r \in res : r.kind = "subnet" /\ r.owner = "tool"}

\* C33: every subnet the tool created has a /24 range inside 10.0.0.0/16
\* whose third octet is, for its zone index i in 0..1, i+10 in a
\* single-node network and 10*i+1 (public) or 10*i+2 (private) in an EKS
\* network; no two subnets of one VPC have the same range, and the
\* provider never refuses a CreateSubnet call for an overlapping range.
C33_SubnetRanges ==
    /\ \A r \in ToolSubnets :
         LET i == r.ref - 1 IN
         /\ i \in 0..1
         /\ r.octet \in 0..255
         /\ r.octet = IF r.vpc \in SingleNodeVpcs THEN i + 10
                      ELSE IF r.sub = "public" THEN 10 * i + 1
                      ELSE 10 * i + 2
         /\ \A q \in ToolSubnets :
              (q.vpc = r.vpc /\ q.octet = r.octet) => q.id = r.id
    /\ \A n \in Idx :
         calls[n].op = "CreateSubnet" => calls[n].err # "InvalidSubnet.Conflict"

\* an EKS network with its four subnets and a single-node network with
\* its two exist side by side
C33_BothNetworks ==
    \E v, w \in {r.vpc : r \in ToolSubnets} :
      /\ v # w
      /\ Cardinality({r \in ToolSubnets : r.vpc = v}) = 4
      /\ Cardinality({r \in ToolSubnets : r.vpc = w}) = 2
      /\ w \in SingleNodeVpcs

\* the images of the list given to the running getLatestAmazonLinuxAMI
Candidates == {ImageAt(loc.images, n) : n \in 1..Len(loc.images)}
Greatest(S, image) == image \in S /\ \A x \in S : x.date <= image.date

\* C34: from a non-empty list, in any order and with images that have no
\* creation date (which count as the oldest), getLatestAmazonLinuxAMI
\* returns a non-minimal image with the greatest creation date when the
\* list holds a non-minimal image, and otherwise a minimal image with the
\* greatest creation date; from the empty list it returns an error.
C34_LatestImage ==
    (op.fn = "getLatestAmazonLinuxAMI" /\ pc = "done") =>
      LET full == {x \in Candidates : ~x.minimal}
          chosen == {x \in Candidates : x.id = ret.val.id}
      IN  IF Candidates = {} THEN ret.err # ""
          ELSE /\ ret.err = ""
               /\ \E image \in chosen :
                    Greatest(IF full # {} THEN full ELSE Candidates, image)

\* a minimal image was returned from a list of three minimal images in
\* which the newest is not the first
C34_FallbackToMinimal ==
    /\ op.fn = "getLatestAmazonLinuxAMI"
    /\ pc = "done"
    /\ ret.err = ""
    /\ Len(loc.images) = 3
    /\ \A x \in Candidates : x.minimal /\ x.date # 0
    /\ ret.val.id = 3
    /\ loc.images[3].date > loc.images[1].date

\* the instance discovery of the running teardown, the first call of
\* DeleteCluster
Discoveries == {i \in Idx : calls[i].op = "DescribeInstances" /\ calls[i].name = op.name
                            /\ \A j \in 1..(i - 1) : calls[j].op = "sts:GetCallerIdentity"}

\* C35: DeleteCluster on aws returns an error exactly when its instance
\* discovery failed, which is then its only call; when the discovery
\* succeeded it returns nil whatever the later calls answered, and the
\* teardown command returns nil as well.
C35_TeardownErrorOnlyFromDiscovery ==
    (loc.cmd = "teardown" /\ loc.cloud = "aws" /\ pc \in {"done", "return"}) =>
      \A d \in Discoveries :
        IF calls[d].err # ""
        THEN d = Len(calls) /\ ret.err # ""
        ELSE ret.err = ""

\* the teardown command returns nil although a call after the discovery
\* failed
C35_SuccessDespiteFailures ==
    /\ loc.cmd = "teardown"
    /\ loc.cloud = "aws"
    /\ pc = "return"
    /\ ret.err = ""
    /\ \E i \in Idx : calls[i].op \in Removals \cup IdentityRemovals
                      /\ calls[i].err # ""

\* the create command was given a cluster type its provider has no case for
UnsupportedType ==
    /\ loc.cmd = "create"
    /\ \/ loc.cloud = "aws" /\ op.type \notin {"eks", "single-node"}
       \/ loc.cloud = "azure" /\ op.type \notin {"aks", "single-node"}

\* C36: CreateCluster with a cluster type the provider does not support goes
\* from the dispatch straight to an error return: no function of the
\* creation is entered and no provider call other than the credential
\* validation of the manager's construction is made.
C36_UnsupportedTypeCreatesNothing ==
    UnsupportedType =>
      /\ pc \in {"NewAWSManager", "NewAzureManager", "manager.CreateCluster",
                 "done", "return"}
      /\ ResourceOperations = {}
      /\ Execs = <<>>
      /\ pc \in {"done", "return"} => ret.err # ""

\* CreateCluster on aws was asked for an aks cluster and has returned the
\* error of the default case, after the validation as its only call
C36_UnsupportedOnAws ==
    /\ UnsupportedType
    /\ loc.cloud = "aws"
    /\ pc = "done"
    /\ ret.err = Wrap("unsupported cluster type for AWS", "aks")
    /\ Len(calls) = 1

\* a single-node creation or a teardown is under way
UnderWay ==
    /\ pc \notin {"idle", "done"}
    /\ \/ Teardown
       \/ Creation /\ op.type = "single-node"
\* the loops of the running function are within their limits
WithinLimits ==
    /\ pc = "waitForInstanceProfile" => loc.polls <= maxAttempts
    /\ pc = "waitForVPCEndpointsDeletion" => loc.polls <= maxEndpointTicks
    /\ Cardinality(Launches) <= maxRetries
    /\ \A o \in RetriedDeletes, i \in Idx :
         calls[i].op = o => Cardinality(Attempts(o, calls[i].id)) <= maxDeleteRetries

\* C37: when every provider call returns, a single-node CreateCluster and
\* a DeleteCluster that are under way return, whatever the calls answer;
\* on the way the profile wait makes at most 12 reads, the launch loop at
\* most 6 RunInstances calls, each security group or subnet is deleted
\* with at most 3 calls, and the endpoint wait makes at most the 30 reads
\* that fit before its deadline.
C37_ReachesReturn ==
    /\ []WithinLimits
    /\ UnderWay ~> (pc = "done")

\* a teardown has returned after its endpoint wait ran into the deadline
C37_ReturnedAfterDeadline ==
    /\ Teardown
    /\ pc = "done"
    /\ \E i \in Idx : /\ calls[i].op = "waitForVPCEndpointsDeletion"
                      /\ calls[i].err = "timeout"

\* where a single-node creation is once createVPCAndSubnetsForSSM has made
\* its subnets: in createSSMVPCEndpoints and then in createEC2Instance,
\* which reads privateSubnetIds[0]
AfterSSMSubnets ==
    {"createSSMVPCEndpoints", "ssmep_AuthorizeSecurityGroupIngress",
     "ssmep_CreateVpcEndpoint", "getLatestAmazonLinuxAMI", "RunInstances"}

\* C38: no indexing step of a creation goes out of range.  Past the subnet
\* loop of createVPCAndSubnetsForSSM the list of private subnet ids has a
\* first element; every subnet of either kind of network was made for a
\* zone the provider reported, and an EKS creation is past the zones check
\* only with two zones; a single-node creation that returns a descriptor
\* has read the instance from the result of a successful RunInstances, its
\* last call.
C38_IndexesInRange ==
    Creation =>
      /\ (op.type = "single-node" /\ pc \in AfterSSMSubnets) => Len(loc.priv) >= 1
      /\ \A r \in OfKind("subnet", loc.vpc) :
           loc.vpc # 0 => r.ref \in 1..zones
      /\ (op.type = "eks" /\ pc = "vpc_CreateSubnet") => zones >= 2
      /\ (op.type = "single-node" /\ pc = "done" /\ ret.err = "") =>
           /\ calls[Len(calls)].op = "RunInstances"
           /\ calls[Len(calls)].err = ""
           /\ ret.val.id = calls[Len(calls)].id
           /\ Exists(ret.val.id)

\* the provider reported one zone, the single-node network got its one
\* private subnet, and the instance was launched in it
C38_OneZoneOneSubnet ==
    /\ Creation
    /\ op.type = "single-node"
    /\ zones = 1
    /\ pc = "done"
    /\ ret.err = ""
    /\ Len(loc.priv) = 1
    /\ Get(ret.val.id).ref = loc.priv[1]

====
